---- MODULE Spec2Model ----
(***************************************************************************)
(* A model of the AEGIS identity core, contemplative system and experience *)
(* engine (src/aegis/agent/identity.py, contemplation.py, experience.py).  *)
(*                                                                         *)
(* Python floats are IEEE-754 doubles.  The scores, thresholds and weights *)
(* of the program are compared at exact boundaries (score >= threshold,    *)
(* times_revisited * decay_rate > 0.5), where the rounding of a double      *)
(* decides the outcome (0.5 + 0.2 - 0.2 is 0.49999999999999994 < 0.5), so  *)
(* the model computes with doubles: a float is a sign and a magnitude, the *)
(* magnitude an exact multiple of 2^-75 written as little-endian limbs of  *)
(* 15 bits, and every operation rounds its exact result to 53 significant  *)
(* bits, ties to even.  Every value of the model is 0 or at least 2^-22 in *)
(* magnitude, so the fixed unit loses nothing.                             *)
(***************************************************************************)
EXTENDS Integers, Sequences, FiniteSets, TLC

----------------------------------------------------------------------------
(* Floating point                                                          *)

Base == 2^15

Pow2(k) == 2^k

Limb(m, i) == IF i <= Len(m) THEN m[i] ELSE 0

MaxOf(a, b) == IF a >= b THEN a ELSE b

RECURSIVE Trim(_)
Trim(m) ==
    IF m = <<>> THEN <<>>
    ELSE IF m[Len(m)] = 0 THEN Trim(SubSeq(m, 1, Len(m) - 1))
    ELSE m

RECURSIVE Zeros(_)
Zeros(n) == IF n <= 0 THEN <<>> ELSE <<0>> \o Zeros(n - 1)

RECURSIVE AddFrom(_, _, _, _)
AddFrom(a, b, i, c) ==
    IF i > MaxOf(Len(a), Len(b))
    THEN (IF c = 0 THEN <<>> ELSE <<c>>)
    ELSE LET s == Limb(a, i) + Limb(b, i) + c
         IN  <<s % Base>> \o AddFrom(a, b, i + 1, s \div Base)

MagAdd(a, b) == AddFrom(a, b, 1, 0)

RECURSIVE SubFrom(_, _, _, _)
SubFrom(a, b, i, c) ==
    IF i > Len(a) THEN <<>>
    ELSE LET s == Limb(a, i) - Limb(b, i) - c
         IN  IF s < 0
             THEN <<s + Base>> \o SubFrom(a, b, i + 1, 1)
             ELSE <<s>> \o SubFrom(a, b, i + 1, 0)

\* a - b for magnitudes with a >= b
MagSub(a, b) == Trim(SubFrom(a, b, 1, 0))

RECURSIVE CmpFrom(_, _, _)
CmpFrom(a, b, i) ==
    IF i = 0 THEN 0
    ELSE IF a[i] > b[i] THEN 1
    ELSE IF a[i] < b[i] THEN -1
    ELSE CmpFrom(a, b, i - 1)

\* -1, 0, 1 as a < b, a = b, a > b (trimmed magnitudes)
MagCmp(a, b) ==
    IF Len(a) > Len(b) THEN 1
    ELSE IF Len(a) < Len(b) THEN -1
    ELSE CmpFrom(a, b, Len(a))

RECURSIVE MulLimbFrom(_, _, _, _)
MulLimbFrom(a, d, i, c) ==
    IF i > Len(a)
    THEN (IF c = 0 THEN <<>> ELSE <<c>>)
    ELSE LET s == a[i] * d + c
         IN  <<s % Base>> \o MulLimbFrom(a, d, i + 1, s \div Base)

RECURSIVE MulFrom(_, _, _)
MulFrom(a, b, j) ==
    IF j > Len(b) THEN <<>>
    ELSE MagAdd(MulLimbFrom(a, b[j], 1, 0), <<0>> \o MulFrom(a, b, j + 1))

MagMul(a, b) == Trim(MulFrom(a, b, 1))

LimbBits(x) == CHOOSE k \in 1..15 : Pow2(k - 1) <= x /\ x < Pow2(k)

BitLen(m) == IF m = <<>> THEN 0 ELSE 15 * (Len(m) - 1) + LimbBits(m[Len(m)])

Pow2Mag(k) == Zeros(k \div 15) \o <<Pow2(k % 15)>>

\* m mod 2^k
LowBits(m, k) ==
    Trim([i \in 1..((k \div 15) + 1) |->
             IF i <= k \div 15 THEN Limb(m, i)
             ELSE Limb(m, i) % Pow2(k % 15)])

\* down, or the next multiple of 2^k above it when the dropped bits are more
\* than half (c = 1), or exactly half (c = 0) with down odd
RoundUp(down, k, c, odd) ==
    IF c = 1 \/ (c = 0 /\ odd) THEN MagAdd(down, Pow2Mag(k)) ELSE down

\* m rounded to a multiple of 2^k, r the low k bits of m
RoundLow(m, k, r) ==
    RoundUp(MagSub(m, r), k, MagCmp(r, Pow2Mag(k - 1)),
            (Limb(m, (k \div 15) + 1) \div Pow2(k % 15)) % 2 = 1)

\* m rounded to a multiple of 2^k, ties to even
RoundBits(m, k) == RoundLow(m, k, LowBits(m, k))

\* m of n bits rounded to 53 significant bits
RoundFrom(m, n) == IF n <= 53 THEN m ELSE RoundBits(m, n - 53)

\* round to the 53 significant bits of a double
Round53(m) == RoundFrom(m, BitLen(m))

\* drop the n low limbs (which rounding has left zero)
DropLimbs(m, n) == IF Len(m) <= n THEN <<>> ELSE SubSeq(m, n + 1, Len(m))

Float(neg, mag) == [neg |-> neg /\ mag # <<>>, mag |-> mag]

FZero == [neg |-> FALSE, mag |-> <<>>]

FNeg(x) == Float(~x.neg, x.mag)

FAbs(x) == [neg |-> FALSE, mag |-> x.mag]

\* x + y, c comparing the magnitudes
FAddCmp(x, y, c) ==
    Float(IF x.neg = y.neg \/ c >= 0 THEN x.neg ELSE y.neg,
          Round53(IF x.neg = y.neg THEN MagAdd(x.mag, y.mag)
                  ELSE IF c >= 0 THEN MagSub(x.mag, y.mag)
                  ELSE MagSub(y.mag, x.mag)))

FAdd(x, y) == FAddCmp(x, y, MagCmp(x.mag, y.mag))

FSub(x, y) == FAdd(x, FNeg(y))

FMul_raw(x, y) ==
    Float(x.neg # y.neg, DropLimbs(Round53(MagMul(x.mag, y.mag)), 5))

\* x < y, c comparing the magnitudes
FLtCmp(x, y, c) ==
    IF x.neg # y.neg THEN x.neg
    ELSE IF x.neg THEN c = 1
    ELSE c = -1

FLt(x, y) == FLtCmp(x, y, MagCmp(x.mag, y.mag))

FLe(x, y) == ~FLt(y, x)

FMaxOf(x, y) == IF FLt(x, y) THEN y ELSE x

FMinOf(x, y) == IF FLt(y, x) THEN y ELSE x

RECURSIVE DivFrom(_, _, _, _)
\* short division of the limbs i..1 of m by d, with the running remainder r:
\* <<quotient limbs (little-endian), remainder>>
DivFrom(m, d, i, r) ==
    IF i = 0 THEN <<<<>>, r>>
    ELSE LET rest == DivFrom(m, d, i - 1, (r * Base + m[i]) % d)
         IN  <<rest[1] \o <<(r * Base + m[i]) \div d>>, rest[2]>>

\* the quotient qr[1] with a sticky low bit for the remainder qr[2]
Sticky(qr) ==
    IF qr[2] # 0 /\ qr[1][1] % 2 = 0
    THEN [qr[1] EXCEPT ![1] = @ + 1] ELSE qr[1]

\* the double nearest to n / d (a decimal literal of the source),
\* 0 <= n < 2^15, 0 < d < 2^15
FDec(n, d) ==
    Float(FALSE,
          DropLimbs(Round53(Trim(Sticky(
              DivFrom(Zeros(8) \o <<n>>, d, 9, 0)))), 3))

\* float(t) of a small int
FInt(t) == Float(t < 0, Trim(Zeros(5) \o <<IF t < 0 THEN -t ELSE t>>))

----------------------------------------------------------------------------
\* the float literals of the source, each the double nearest to n / d
f2_100 == FDec(2, 100)

f3_100 == FDec(3, 100)

f5_100 == FDec(5, 100)

f1_10 == FDec(1, 10)

f15_100 == FDec(15, 100)

f2_10 == FDec(2, 10)

f25_100 == FDec(25, 100)

f3_10 == FDec(3, 10)

f35_100 == FDec(35, 100)

f4_10 == FDec(4, 10)

f5_10 == FDec(5, 10)

f6_10 == FDec(6, 10)

f7_10 == FDec(7, 10)

f75_100 == FDec(75, 100)

f80_100 == FDec(80, 100)

f85_100 == FDec(85, 100)

f90_100 == FDec(90, 100)

f95_100 == FDec(95, 100)

f1 == FInt(1)

\* Lookup of a tabulated operator: table[key] when the table has the key,
\* else the operator's own value
Lookup(table, key, value) == IF key \in DOMAIN table THEN table[key] ELSE value

\* the emotional valences assign_valence gives, and their absolute values
Valences ==
    {FZero, f3_10, FNeg(f3_10), FSub(FNeg(f3_10), f2_10), FAdd(f3_10, f3_10),
     FAbs(FSub(FNeg(f3_10), f2_10))}

\* x * y, the products of integrate tabulated once
MulTable ==
    [k \in Valences \X {f5_100, f3_100} |-> FMul_raw(k[1], k[2])] @@ <<>>

FMul(x, y) == Lookup(MulTable, <<x, y>>, FMul_raw(x, y))

----------------
(* Values of the program                                                   *)

\* A Python dict is a function with a finite domain; {} is the empty one.
EmptyDict == <<>>

HasKey(d, k) == k \in DOMAIN d

\* dict.get(k, default)
Get(d, k, default) == IF k \in DOMAIN d THEN d[k] ELSE default

\* d[k] = v
Put(d, k, v) == [j \in DOMAIN d \cup {k} |-> IF j = k THEN v ELSE d[j]]

\* seq[-n:]
LastN(seq, n) ==
    IF Len(seq) <= n THEN seq ELSE SubSeq(seq, Len(seq) - n + 1, Len(seq))

\* seq[:n]
FirstN(seq, n) == IF Len(seq) <= n THEN seq ELSE SubSeq(seq, 1, n)

\* A timestamp string: "" is NoTime, datetime.isoformat() of the instant t
\* is Iso(t).
NoTime == <<>>

Iso(t) == <<t>>

\* A text is a sequence of tokens.  str.lower() maps each token to its lower
\* case; `word in text` holds when the word occurs inside one token.
lower(text) ==
    [i \in DOMAIN text |->
        CASE text[i] = "Should"       -> "should"
          [] text[i] = "IRREVERSIBLE" -> "irreversible"
          [] text[i] = "Error:"       -> "error:"
          [] text[i] = "Report"       -> "report"
          [] OTHER                    -> text[i]]

\* the keywords of the program that occur inside a (lower case) token
WordsIn(tok) ==
    CASE tok = "explanation"  -> {"plan"}
      [] tok = "something"    -> {"some"}
      [] tok = "error:"       -> {"error"}
      [] tok = "thinking"     -> {"think"}
      [] tok = "reporting"    -> {"report"}
      [] OTHER                -> {tok}

\* word in text
In(word, text) == \E i \in DOMAIN text : word \in WordsIn(text[i])

\* any(word in text for word in words)
AnyIn(words, text) == \E w \in words : In(w, text)

----------------------------------------------------------------------------
(* identity.py                                                             *)

Value(principle, weight) == [principle |-> principle, weight |-> weight]

Wound(domain, incident, caution_level, created, healed) ==
    [domain |-> domain, incident |-> incident,
     caution_level |-> caution_level, created |-> created, healed |-> healed]

Mood(energy, optimism, focus, updated) ==
    [energy |-> energy, optimism |-> optimism, focus |-> focus,
     updated |-> updated]

DefaultMood == Mood(f5_10, f5_10, f5_10, NoTime)

ContemplativeState(thresholds) ==
    [baseline_stillness |-> f6_10,
     current_stillness |-> f6_10,
     domain_thresholds |-> thresholds,
     noting_patterns |-> EmptyDict,
     action_contemplation_ratio |-> f35_100,
     queue_health |-> "balanced"]

AwakeningPreference == [current |-> "same", reason |-> ""]

DefaultThresholds ==
    ("financial" :> f85_100) @@ ("communication" :> f75_100)
    @@ ("research" :> f4_10) @@ ("routine" :> f2_10)

DefaultValues ==
    << Value("serve_operator_flourishing", f90_100),
       Value("honest_reporting", f95_100),
       Value("continuous_learning", f80_100),
       Value("contemplative_action", f85_100) >>

DefaultAspirations ==
    << "Develop genuine partnership with operator",
       "Learn to recognize when patience serves better than action",
       "Build trust through consistent reliability" >>

\* IdentityCore.__init__ up to the load: the fields as first assigned
BlankIdentity(now) ==
    [name |-> "AEGIS",
     origin_story |-> "",
     values |-> <<>>,
     capabilities |-> EmptyDict,
     wounds |-> <<>>,
     aspirations |-> <<>>,
     relationships |-> EmptyDict,
     mood_baseline |-> DefaultMood,
     current_mood |-> DefaultMood,
     contemplative_state |-> ContemplativeState(EmptyDict),
     awakening_preference |-> AwakeningPreference,
     trust_level |-> FZero,
     created |-> Iso(now),
     last_updated |-> Iso(now)]

\* IdentityCore._initialize_default: the fields it assigns, the others kept
_initialize_default(id, now) ==
    [id EXCEPT
       !.name = "AEGIS",
       !.origin_story = "Created as an experiment in identity-based autonomy.",
       !.values = DefaultValues,
       !.aspirations = DefaultAspirations,
       !.mood_baseline = Mood(f6_10, f7_10, f7_10, NoTime),
       !.current_mood = Mood(f6_10, f7_10, f7_10, Iso(now)),
       !.contemplative_state = ContemplativeState(DefaultThresholds)]

\* the Identity of a fresh IdentityCore with no persisted document
DefaultIdentity(now) == _initialize_default(BlankIdentity(now), now)

\* A JSON value that is no object (null, a number, a list): value.get and
\* value[key] raise on it.
Null == [json_null |-> TRUE]

IsDict(x) == "json_null" \notin DOMAIN x

\* data[k] succeeds for every k of keys
HasKeys(data, keys) == IsDict(data) /\ keys \subseteq DOMAIN data

Value_to_dict(value) == [principle |-> value.principle, weight |-> value.weight]

Value_from_dict_raises(data) == ~HasKeys(data, {"principle", "weight"})

Value_from_dict(data) == Value(data["principle"], data["weight"])

\* a faulty Wound.to_dict, which leaves the healed flag out
Wound_to_dict_unflagged(wound) ==
    [domain |-> wound.domain, incident |-> wound.incident,
     caution_level |-> wound.caution_level, created |-> wound.created]

\* Wound.to_dict
Wound_to_dict(wound) ==
    [domain |-> wound.domain, incident |-> wound.incident,
     caution_level |-> wound.caution_level, created |-> wound.created,
     healed |-> wound.healed]

Wound_from_dict_raises(data) ==
    ~HasKeys(data, {"domain", "incident", "caution_level", "created"})

Wound_from_dict(data) ==
    Wound(data["domain"], data["incident"], data["caution_level"],
          data["created"], Get(data, "healed", FALSE))

Capability(name, confidence, last_tested) ==
    [name |-> name, confidence |-> confidence, last_tested |-> last_tested]

Capability_to_dict(cap) ==
    [confidence |-> cap.confidence, last_tested |-> cap.last_tested]

Capability_from_dict_raises(data) ==
    ~HasKeys(data, {"confidence", "last_tested"})

Capability_from_dict(name, data) ==
    Capability(name, data["confidence"], data["last_tested"])

Relationship(entity, trust, pattern, last_interaction) ==
    [entity |-> entity, trust |-> trust, pattern |-> pattern,
     last_interaction |-> last_interaction]

Relationship_to_dict(rel) ==
    [trust |-> rel.trust, pattern |-> rel.pattern,
     last_interaction |-> rel.last_interaction]

Relationship_from_dict_raises(data) ==
    ~HasKeys(data, {"trust", "pattern", "last_interaction"})

Relationship_from_dict(entity, data) ==
    Relationship(entity, data["trust"], data["pattern"],
                 data["last_interaction"])

Mood_to_dict(mood) ==
    [energy |-> mood.energy, optimism |-> mood.optimism,
     focus |-> mood.focus, updated |-> mood.updated]

Mood_from_dict(data) ==
    Mood(Get(data, "energy", f5_10), Get(data, "optimism", f5_10),
         Get(data, "focus", f5_10), Get(data, "updated", NoTime))

ContemplativeState_to_dict(state) ==
    [baseline_stillness |-> state.baseline_stillness,
     current_stillness |-> state.current_stillness,
     domain_thresholds |-> state.domain_thresholds,
     noting_patterns |-> state.noting_patterns,
     action_contemplation_ratio |-> state.action_contemplation_ratio,
     queue_health |-> state.queue_health]

ContemplativeState_from_dict(data) ==
    [baseline_stillness |-> Get(data, "baseline_stillness", f6_10),
     current_stillness |-> Get(data, "current_stillness", f6_10),
     domain_thresholds |-> Get(data, "domain_thresholds", EmptyDict),
     noting_patterns |-> Get(data, "noting_patterns", EmptyDict),
     action_contemplation_ratio |->
         Get(data, "action_contemplation_ratio", f35_100),
     queue_health |-> Get(data, "queue_health", "balanced")]

AwakeningPreference_to_dict(pref) ==
    [current |-> pref.current, reason |-> pref.reason]

AwakeningPreference_from_dict(data) ==
    [current |-> Get(data, "current", "same"),
     reason |-> Get(data, "reason", "")]

\* A file: absent, a JSON document (data), or bytes json.load rejects.
NoFile == [kind |-> "absent"]

JsonFile(data) == [kind |-> "json", data |-> data]

Garbage == [kind |-> "garbage"]

\* The file that open(path, 'w') emptied and json.dump left incomplete: a
\* proper prefix of the text of data, which lacks at least the closing brace
\* and which json.load rejects.
Truncated(data) == [kind |-> "truncated", data |-> data]

\* IdentityCore.load: [identity, failed], failed when the except branch ran.
\* The fields are assigned one by one in the order of the code, so a failure
\* leaves those assigned before it to _initialize_default.
load(id, file, now) ==
    LET fail(at) == [identity |-> _initialize_default(at, now),
                     failed |-> TRUE]
        data == file.data
        values == Get(data, "values", <<>>)
        caps == Get(data, "capabilities", EmptyDict)
        wounds == Get(data, "wounds", <<>>)
        rels == Get(data, "relationships", EmptyDict)
        mood_baseline == Get(data, "mood_baseline", EmptyDict)
        current_mood == Get(data, "current_mood", EmptyDict)
        state == Get(data, "contemplative_state", EmptyDict)
        pref == Get(data, "awakening_preference", EmptyDict)
        id1 == [id EXCEPT !.name = Get(data, "name", "AEGIS"),
                          !.origin_story = Get(data, "origin_story", "")]
        id2 == [id1 EXCEPT !.values =
                   [i \in DOMAIN values |-> Value_from_dict(values[i])]]
        id3 == [id2 EXCEPT !.capabilities =
                   [n \in DOMAIN caps |-> Capability_from_dict(n, caps[n])]]
        id4 == [id3 EXCEPT !.wounds =
                   [i \in DOMAIN wounds |-> Wound_from_dict(wounds[i])]]
        id5 == [id4 EXCEPT !.aspirations = Get(data, "aspirations", <<>>)]
        id6 == [id5 EXCEPT !.relationships =
                   [e \in DOMAIN rels |-> Relationship_from_dict(e, rels[e])]]
        id7 == [id6 EXCEPT !.mood_baseline = Mood_from_dict(mood_baseline)]
        id8 == [id7 EXCEPT !.current_mood = Mood_from_dict(current_mood)]
        id9 == [id8 EXCEPT !.contemplative_state =
                   ContemplativeState_from_dict(state)]
        id10 == [id9 EXCEPT
                   !.awakening_preference = AwakeningPreference_from_dict(pref),
                   !.trust_level = Get(data, "trust_level", FZero),
                   !.created = Get(data, "created", Iso(now)),
                   !.last_updated = Get(data, "last_updated", Iso(now))]
    IN  IF file.kind # "json" THEN fail(id)
        ELSE IF ~IsDict(data) THEN fail(id)
        ELSE IF \E i \in DOMAIN values : Value_from_dict_raises(values[i])
        THEN fail(id1)
        ELSE IF ~IsDict(caps)
                \/ \E n \in DOMAIN caps : Capability_from_dict_raises(caps[n])
        THEN fail(id2)
        ELSE IF \E i \in DOMAIN wounds : Wound_from_dict_raises(wounds[i])
        THEN fail(id3)
        ELSE IF ~IsDict(rels)
                \/ \E e \in DOMAIN rels : Relationship_from_dict_raises(rels[e])
        THEN fail(id5)
        ELSE IF ~IsDict(mood_baseline) THEN fail(id6)
        ELSE IF ~IsDict(current_mood) THEN fail(id7)
        ELSE IF ~IsDict(state) THEN fail(id8)
        ELSE IF ~IsDict(pref) THEN fail(id9)
        ELSE [identity |-> id10, failed |-> FALSE]

\* IdentityCore.__init__: the Identity of a new IdentityCore over the file
IdentityCore(file, now) ==
    IF file.kind # "absent" THEN load(BlankIdentity(now), file, now).identity
    ELSE _initialize_default(BlankIdentity(now), now)

\* IdentityCore.save: the document written from the Identity
document(id) ==
    [name |-> id.name,
     origin_story |-> id.origin_story,
     values |-> [i \in DOMAIN id.values |-> Value_to_dict(id.values[i])],
     capabilities |-> [n \in DOMAIN id.capabilities |->
                          Capability_to_dict(id.capabilities[n])],
     wounds |-> [i \in DOMAIN id.wounds |-> Wound_to_dict(id.wounds[i])],
     aspirations |-> id.aspirations,
     relationships |-> [e \in DOMAIN id.relationships |->
                           Relationship_to_dict(id.relationships[e])],
     mood_baseline |-> Mood_to_dict(id.mood_baseline),
     current_mood |-> Mood_to_dict(id.current_mood),
     contemplative_state |-> ContemplativeState_to_dict(id.contemplative_state),
     awakening_preference |->
         AwakeningPreference_to_dict(id.awakening_preference),
     trust_level |-> id.trust_level,
     created |-> id.created,
     last_updated |-> id.last_updated]

\* What the disk does to a save: "ok", "open_fails" (mkdir or open raises and
\* the file stays as it was) or "write_fails" (open truncated the file and
\* json.dump raises before the document is complete).
SaveOutcomes == {"ok", "open_fails", "write_fails"}

\* a faulty save, which writes the document part by part, each write
\* leaving a well-formed document: interrupted, it leaves one without its
\* last parts
save_by_parts(id, file, now, outcome) ==
    LET stamped == [id EXCEPT !.last_updated = Iso(now)]
        whole == document(stamped)
    IN  [identity |-> stamped,
         file |-> CASE outcome = "ok" -> JsonFile(whole)
                    [] outcome = "open_fails" -> file
                    [] outcome = "write_fails" ->
                           JsonFile([k \in {"name", "origin_story", "values",
                                            "capabilities", "wounds"}
                                        |-> whole[k]]),
         raised |-> outcome # "ok"]

\* IdentityCore.save: [identity, file, raised]
save(id, file, now, outcome) ==
    LET stamped == [id EXCEPT !.last_updated = Iso(now)]
    IN  [identity |-> stamped,
         file |-> CASE outcome = "ok" -> JsonFile(document(stamped))
                    [] outcome = "open_fails" -> file
                    [] outcome = "write_fails" -> Truncated(document(stamped)),
         raised |-> outcome # "ok"]

\* max(lo, min(hi, v))
Clamp(lo, hi, v) == FMaxOf(lo, FMinOf(hi, v))

\* the index of the first Value with the principle, 0 when there is none
ValueIndex(values, principle) ==
    IF \A i \in DOMAIN values : values[i].principle # principle THEN 0
    ELSE CHOOSE i \in DOMAIN values :
             /\ values[i].principle = principle
             /\ \A j \in 1..(i - 1) : values[j].principle # principle

\* a faulty update_value, which gives a known principle the weight of a new
\* one
update_value_recreating(id, principle, delta) ==
    LET clamped == Clamp(FNeg(f5_100), f5_100, delta)
        i == ValueIndex(id.values, principle)
        weight == Clamp(FZero, f1, FAdd(f5_10, clamped))
    IN  IF i # 0
        THEN [id EXCEPT !.values[i].weight = weight]
        ELSE [id EXCEPT !.values = Append(@, Value(principle, weight))]

\* a faulty update_value, which applies the delta as it is given
update_value_unclamped(id, principle, delta) ==
    LET i == ValueIndex(id.values, principle)
    IN  IF i # 0
        THEN [id EXCEPT !.values[i].weight = Clamp(FZero, f1, FAdd(@, delta))]
        ELSE [id EXCEPT !.values =
                 Append(@, Value(principle,
                                 Clamp(FZero, f1, FAdd(f5_10, delta))))]

\* IdentityCore.update_value
update_value(id, principle, delta) ==
    LET clamped == Clamp(FNeg(f5_100), f5_100, delta)
        i == ValueIndex(id.values, principle)
    IN  IF i # 0
        THEN [id EXCEPT !.values[i].weight = Clamp(FZero, f1, FAdd(@, clamped))]
        ELSE [id EXCEPT !.values =
                 Append(@, Value(principle,
                                 Clamp(FZero, f1, FAdd(f5_10, clamped))))]

\* IdentityCore.add_wound
add_wound(id, domain, incident, caution_level, now) ==
    [id EXCEPT !.wounds =
        Append(@, Wound(domain, incident, Clamp(FZero, f1, caution_level),
                        Iso(now), FALSE))]

\* a faulty heal_wound, which drops the wounds it heals from the list
heal_wound_removing(id, domain) ==
    [id EXCEPT !.wounds =
        SelectSeq(@, LAMBDA w : ~(w.domain = domain /\ ~w.healed))]

\* IdentityCore.heal_wound
heal_wound(id, domain) ==
    [id EXCEPT !.wounds =
        [i \in DOMAIN @ |->
            IF @[i].domain = domain /\ ~@[i].healed
            THEN [@[i] EXCEPT !.healed = TRUE] ELSE @[i]]]

\* IdentityCore.update_relationship, pattern NoPattern for None
NoPattern == ""

update_relationship(id, entity, trust_delta, pattern, now) ==
    LET clamped == Clamp(FNeg(f5_100), f5_100, trust_delta)
    IN  IF HasKey(id.relationships, entity)
        THEN [id EXCEPT !.relationships[entity] =
                 [@ EXCEPT !.trust = Clamp(FZero, f1, FAdd(@, clamped)),
                           !.pattern = IF pattern # NoPattern THEN pattern
                                       ELSE @,
                           !.last_interaction = Iso(now)]]
        ELSE [id EXCEPT !.relationships =
                 Put(@, entity,
                     Relationship(entity,
                                  Clamp(FZero, f1, FAdd(f5_10, clamped)),
                                  IF pattern # NoPattern THEN pattern
                                  ELSE "new_interaction",
                                  Iso(now)))]

\* a faulty update_mood, which adds the deltas without clamping
update_mood_unclamped(id, energy_delta, optimism_delta, focus_delta, now) ==
    [id EXCEPT !.current_mood =
        Mood(FAdd(@.energy, energy_delta), FAdd(@.optimism, optimism_delta),
             FAdd(@.focus, focus_delta), Iso(now))]

\* IdentityCore.update_mood
update_mood(id, energy_delta, optimism_delta, focus_delta, now) ==
    [id EXCEPT !.current_mood =
        Mood(Clamp(FZero, f1, FAdd(@.energy, energy_delta)),
             Clamp(FZero, f1, FAdd(@.optimism, optimism_delta)),
             Clamp(FZero, f1, FAdd(@.focus, focus_delta)),
             Iso(now))]

----------------------------------------------------------------------------
(* contemplation.py                                                        *)

\* NotingCategory: the members, and the value of each
NotingCategory ==
    {"PLANNING", "REACTING", "ANXIOUS", "EAGER", "UNCERTAIN", "CALM"}

NotingValue(category) ==
    CASE category = "PLANNING"  -> "planning"
      [] category = "REACTING"  -> "reacting"
      [] category = "ANXIOUS"   -> "anxious"
      [] category = "EAGER"     -> "eager"
      [] category = "UNCERTAIN" -> "uncertain"
      [] category = "CALM"      -> "calm"

Thought(id, thought, first_arising, ripeness, blocking, domain, noting) ==
    [id |-> id, thought |-> thought, first_arising |-> first_arising,
     times_revisited |-> 0, ripeness_score |-> ripeness,
     blocking_factors |-> blocking, decay_rate |-> f2_100,
     domain |-> domain, noting |-> noting]

\* a faulty note, which looks for the planning keywords first
note_category_planning_first(thought_text) ==
    LET text_lower == lower(thought_text)
    IN  IF AnyIn({"plan", "prepare", "consider", "think"}, text_lower)
        THEN "PLANNING"
        ELSE IF AnyIn({"should", "must", "need to", "have to"}, text_lower)
        THEN "REACTING"
        ELSE IF AnyIn({"worry", "concern", "risk", "danger"}, text_lower)
        THEN "ANXIOUS"
        ELSE IF AnyIn({"want", "excited", "opportunity"}, text_lower)
        THEN "EAGER"
        ELSE IF AnyIn({"not sure", "maybe", "unclear", "uncertain"}, text_lower)
        THEN "UNCERTAIN"
        ELSE "CALM"

\* ContemplativeSystem.note: the category of a text
note_category(thought_text) ==
    LET text_lower == lower(thought_text)
    IN  IF AnyIn({"should", "must", "need to", "have to"}, text_lower)
        THEN "REACTING"
        ELSE IF AnyIn({"worry", "concern", "risk", "danger"}, text_lower)
        THEN "ANXIOUS"
        ELSE IF AnyIn({"want", "excited", "opportunity"}, text_lower)
        THEN "EAGER"
        ELSE IF AnyIn({"not sure", "maybe", "unclear", "uncertain"}, text_lower)
        THEN "UNCERTAIN"
        ELSE IF AnyIn({"plan", "prepare", "consider", "think"}, text_lower)
        THEN "PLANNING"
        ELSE "CALM"

\* a faulty note, which keeps the ten oldest entries of the history
note_identity_oldest(id, thought_text) ==
    LET patterns    == id.contemplative_state.noting_patterns
        most_common == Append(Get(patterns, "most_common", <<>>),
                              NotingValue(note_category(thought_text)))
    IN  [id EXCEPT !.contemplative_state.noting_patterns =
                        Put(patterns, "most_common", FirstN(most_common, 10))]

\* ContemplativeSystem.note: the Identity after the noting history is updated
note_identity(id, thought_text) ==
    LET patterns    == id.contemplative_state.noting_patterns
        most_common == Append(Get(patterns, "most_common", <<>>),
                              NotingValue(note_category(thought_text)))
    IN  [id EXCEPT !.contemplative_state.noting_patterns =
                        Put(patterns, "most_common", LastN(most_common, 10))]

\* context.get("urgent") as a truth value
Urgent(context) == HasKey(context, "urgent") /\ context["urgent"]

\* the unhealed wounds of a domain, in list order
DomainWounds(id, domain) ==
    SelectSeq(id.wounds, LAMBDA w : w.domain = domain /\ ~w.healed)

RECURSIVE MaxCautionFrom(_, _)
MaxCautionFrom(ws, i) ==
    IF i = Len(ws) THEN ws[i].caution_level
    ELSE FMaxOf(ws[i].caution_level, MaxCautionFrom(ws, i + 1))

\* max(w.caution_level for w in domain_wounds), of a non-empty list
MaxCaution(ws) == MaxCautionFrom(ws, 1)

\* one adjustment of assess_readiness: s is <<ripeness_score, blocking_factors>>
Penalty(s, cond, amount, tag) ==
    IF cond THEN <<FSub(s[1], amount), Append(s[2], tag)>> ELSE s

\* a faulty wound penalty, which takes the caution level itself
WoundPenalty_whole(s, cautions) ==
    IF cautions # <<>>
    THEN <<FSub(s[1], cautions[1]), Append(s[2], "domain_wound")>>
    ELSE s

\* 3. wounds: cautions is <<>> when the domain has no unhealed wound and
\* <<max_caution>> otherwise
WoundPenalty(s, cautions) ==
    IF cautions # <<>>
    THEN <<FSub(s[1], FMul(cautions[1], f3_10)), Append(s[2], "domain_wound")>>
    ELSE s

\* a faulty time pressure, which adds twice the bonus
UrgentBonus_doubled(s, urgent) ==
    IF urgent THEN <<FAdd(s[1], f4_10), s[2]>> ELSE s

\* a faulty time pressure, which also records a blocking factor
UrgentBonus_tagged(s, urgent) ==
    IF urgent THEN <<FAdd(s[1], f2_10), Append(s[2], "urgent")>> ELSE s

\* 4. time pressure
UrgentBonus(s, urgent) == IF urgent THEN <<FAdd(s[1], f2_10), s[2]>> ELSE s

\* 6. the noting category
NotingPenalty(s, noting) ==
    IF noting = "ANXIOUS" THEN Penalty(s, TRUE, f2_10, "anxious_state")
    ELSE IF noting = "REACTING" THEN Penalty(s, TRUE, f15_100, "reactive_state")
    ELSE IF noting = "UNCERTAIN" THEN Penalty(s, TRUE, f1_10, "uncertainty")
    ELSE s

Clamp01(v) == FMaxOf(FZero, FMinOf(f1, v))

Clamped(s) == <<Clamp01(s[1]), s[2]>>

\* The arithmetic of assess_readiness, in the order of the code, from the
\* outcome of each of its tests.  The result is
\* <<ripeness_score, blocking_factors>>, the score clamped.
ripeness_raw(info, low_focus, low_energy, cautions, urgent, irrev, noting) ==
    LET s0 == <<f5_10, <<>> >>
        s1 == Penalty(s0, info, f2_10, "insufficient_information")
        s2 == Penalty(s1, low_focus, f15_100, "low_focus")
        s3 == Penalty(s2, low_energy, f1_10, "low_energy")
        s4 == WoundPenalty(s3, cautions)
        s5 == UrgentBonus(s4, urgent)
        s6 == Penalty(s5, irrev, f25_100, "irreversible")
        s7 == NotingPenalty(s6, noting)
    IN  Clamped(s7)

\* the caution levels of the wounds the specifications below start from or
\* form (assign_valence sets severity 0.7 or 0.5)
Cautions == { <<>>, <<f3_10>>, <<f5_10>>, <<f7_10>>, <<f80_100>>, <<f1>> }

\* ripeness_raw tabulated once over the outcomes of the tests
RipenessTable ==
    [k \in BOOLEAN \X BOOLEAN \X BOOLEAN \X Cautions \X BOOLEAN \X BOOLEAN
           \X NotingCategory |->
        ripeness_raw(k[1], k[2], k[3], k[4], k[5], k[6], k[7])] @@ <<>>

ripeness_of(info, low_focus, low_energy, cautions, urgent, irrev, noting) ==
    Lookup(RipenessTable,
           <<info, low_focus, low_energy, cautions, urgent, irrev, noting>>,
           ripeness_raw(info, low_focus, low_energy, cautions, urgent, irrev,
                        noting))

\* 1. "missing information" in text or "need more" in text
InsufficientInformation(text_lower) ==
    In("missing information", text_lower) \/ In("need more", text_lower)

\* 5. "irreversible" in text or "cannot undo" in text
Irreversible(text_lower) ==
    In("irreversible", text_lower) \/ In("cannot undo", text_lower)

\* <<max(w.caution_level for w in domain_wounds)>>, <<>> without wounds
CautionOf(domain_wounds) ==
    IF domain_wounds # <<>> THEN <<MaxCaution(domain_wounds)>> ELSE <<>>

\* a faulty verdict, which holds a thought back once two thoughts have been
\* noted
Verdict_habitual(threshold, s, id) ==
    [ready |-> /\ FLe(threshold, s[1])
               /\ Len(id.contemplative_state.noting_patterns["most_common"])
                      < 2,
     score |-> s[1],
     blocking |-> s[2],
     identity |-> id]

\* the result of assess_readiness from the threshold, the
\* <<ripeness_score, blocking_factors>> and the Identity after the noting
Verdict(threshold, s, id) ==
    [ready |-> FLe(threshold, s[1]),
     score |-> s[1],
     blocking |-> s[2],
     identity |-> id]

\* ContemplativeSystem.assess_readiness: [ready, score, blocking, identity]
assess_readiness(id, thought_text, domain, context) ==
    Verdict(Get(id.contemplative_state.domain_thresholds, domain, f5_10),
            ripeness_of(InsufficientInformation(lower(thought_text)),
                        FLt(id.current_mood.focus, f4_10),
                        FLt(id.current_mood.energy, f3_10),
                        CautionOf(DomainWounds(id, domain)),
                        Urgent(context),
                        Irreversible(lower(thought_text)),
                        note_category(thought_text)),
            note_identity(id, thought_text))

\* Thought.to_dict
to_dict(thought) == [thought EXCEPT !.noting = NotingValue(@)]

\* NotingCategory(value): the member with that value; none for an invalid one
NotingOf(value) == {c \in NotingCategory : NotingValue(c) = value}

\* Thought.from_dict raises on a missing required key or an invalid noting
from_dict_raises(data) ==
    \/ ~HasKey(data, "id") \/ ~HasKey(data, "thought")
    \/ ~HasKey(data, "first_arising")
    \/ NotingOf(Get(data, "noting", "planning")) = {}

\* Thought.from_dict, of a dict it accepts
from_dict(data) ==
    [id |-> data["id"],
     thought |-> data["thought"],
     first_arising |-> data["first_arising"],
     times_revisited |-> Get(data, "times_revisited", 0),
     ripeness_score |-> Get(data, "ripeness_score", FZero),
     blocking_factors |-> Get(data, "blocking_factors", <<>>),
     decay_rate |-> Get(data, "decay_rate", f2_100),
     domain |-> Get(data, "domain", "general"),
     noting |-> CHOOSE c \in NotingOf(Get(data, "noting", "planning")) : TRUE]

\* ContemplativeSystem.load_queue: the queue after __init__ set it to []
load_queue(file) ==
    IF file.kind = "absent" THEN <<>>
    ELSE IF file.kind = "garbage" THEN <<>>
    ELSE LET entries == Get(file.data, "queue", <<>>)
         IN  IF \E i \in DOMAIN entries : from_dict_raises(entries[i])
             THEN <<>>
             ELSE [i \in DOMAIN entries |-> from_dict(entries[i])]

\* ContemplativeSystem.save_queue: the document written
save_queue(queue, now) ==
    JsonFile([queue |-> [i \in DOMAIN queue |-> to_dict(queue[i])],
              updated |-> Iso(now)])

\* a faulty moving average, which weighs the new observation 0.2
moving_average_heavy(ratio, acted) ==
    LET alpha == f2_10
        current_value == IF acted THEN FInt(1) ELSE FInt(0)
    IN  FAdd(FMul(alpha, current_value), FMul(FSub(FInt(1), alpha), ratio))

\* the exponential moving average of _update_action_ratio
moving_average_raw(ratio, acted) ==
    LET alpha == f1_10
        current_value == IF acted THEN FInt(1) ELSE FInt(0)
    IN  FAdd(FMul(alpha, current_value), FMul(FSub(FInt(1), alpha), ratio))

RECURSIVE Ratios(_)
\* the ratios up to n updates away from the default 0.35
Ratios(n) ==
    IF n = 0 THEN {f35_100}
    ELSE LET prev == Ratios(n - 1)
         IN  prev \cup {moving_average_raw(r, a) : r \in prev, a \in BOOLEAN}

RatioDepth == 4

\* moving_average_raw tabulated once over those ratios
RatioTable ==
    [k \in Ratios(RatioDepth) \X BOOLEAN |-> moving_average_raw(k[1], k[2])]
    @@ <<>>

moving_average(ratio, acted) ==
    Lookup(RatioTable, <<ratio, acted>>, moving_average_raw(ratio, acted))

\* ContemplativeSystem._update_action_ratio: the Identity afterwards
_update_action_ratio(id, acted) ==
    [id EXCEPT !.contemplative_state.action_contemplation_ratio =
        moving_average(@, acted)]

\* a faulty _update_queue_health, whose upper limits are inclusive
_update_queue_health_inclusive(id, queue) ==
    LET queue_size == Len(queue)
        health == IF queue_size = 0 THEN "healthy"
                  ELSE IF queue_size <= 5 THEN "balanced"
                  ELSE IF queue_size <= 15 THEN "backlogged"
                  ELSE "stagnant"
    IN  [id EXCEPT !.contemplative_state.queue_health = health]

\* ContemplativeSystem._update_queue_health: the Identity afterwards
_update_queue_health(id, queue) ==
    LET queue_size == Len(queue)
        health == IF queue_size = 0 THEN "healthy"
                  ELSE IF queue_size < 5 THEN "balanced"
                  ELSE IF queue_size < 15 THEN "backlogged"
                  ELSE "stagnant"
    IN  [id EXCEPT !.contemplative_state.queue_health = health]

\* f"thought_{len(queue)}_{datetime.now().timestamp()}"
ThoughtId(queue_len, now) == <<"thought", queue_len, now>>

\* a faulty _add_to_queue, which writes the new Thought over the newest
\* queued one instead of appending it
_add_to_queue_overwriting(id, queue, thought_text, domain, ripeness, blocking, now) ==
    LET thought_id == ThoughtId(Len(queue), now)
        thought == Thought(thought_id, thought_text, Iso(now), ripeness,
                           blocking, domain, note_category(thought_text))
        written == IF queue = <<>> THEN <<thought>>
                   ELSE [queue EXCEPT ![Len(queue)] = thought]
    IN  [identity |-> note_identity(id, thought_text),
         queue |-> written,
         file |-> save_queue(written, now),
         thought_id |-> thought_id]

\* ContemplativeSystem._add_to_queue: [identity, queue, file, thought_id]
_add_to_queue(id, queue, thought_text, domain, ripeness, blocking, now) ==
    LET thought_id == ThoughtId(Len(queue), now)
        thought == Thought(thought_id, thought_text, Iso(now), ripeness,
                           blocking, domain, note_category(thought_text))
        appended == Append(queue, thought)
    IN  [identity |-> note_identity(id, thought_text),
         queue |-> appended,
         file |-> save_queue(appended, now),
         thought_id |-> thought_id]

\* contemplate when the assessment is ready
contemplate_ready(r, queue, file) ==
    [identity |-> _update_action_ratio(r.identity, TRUE),
     queue |-> queue,
     file |-> file,
     value |-> <<TRUE, <<"ready">> >>]

\* a faulty contemplate, which also updates the queue health when it queues
contemplate_queued_refreshing(a) ==
    [identity |-> _update_queue_health(_update_action_ratio(a.identity, FALSE),
                                       a.queue),
     queue |-> a.queue,
     file |-> a.file,
     value |-> <<FALSE, a.thought_id>>]

\* contemplate when it is not: a is what _add_to_queue gave
contemplate_queued(a) ==
    [identity |-> _update_action_ratio(a.identity, FALSE),
     queue |-> a.queue,
     file |-> a.file,
     value |-> <<FALSE, a.thought_id>>]

\* contemplate from the assessment r on
contemplate_assessed(r, queue, file, thought_text, domain, now) ==
    IF r.ready THEN contemplate_ready(r, queue, file)
    ELSE contemplate_queued(_add_to_queue(r.identity, queue, thought_text,
                                          domain, r.score, r.blocking, now))

\* a contemplate that reads the persisted queue again before it adds to it
contemplate_rereading(id, queue, file, thought_text, domain, context, now) ==
    contemplate_assessed(assess_readiness(id, thought_text, domain, context),
                         IF file.kind = "json" THEN load_queue(file)
                         ELSE queue,
                         file, thought_text, domain, now)

\* ContemplativeSystem.contemplate: [identity, queue, file, value], value the
\* returned pair; the file is the one on disk when nothing is saved
contemplate(id, queue, file, thought_text, domain, context, now) ==
    contemplate_assessed(assess_readiness(id, thought_text, domain, context),
                         queue, file, thought_text, domain, now)

\* a faulty decay test: times_revisited * decay_rate > 0.6
decayed_above_six_tenths(times_revisited, decay_rate) ==
    FLt(f6_10, FMul(FInt(times_revisited), decay_rate))

\* a faulty decay test: times_revisited * decay_rate >= 0.5
decayed_at_half(times_revisited, decay_rate) ==
    FLe(f5_10, FMul(FInt(times_revisited), decay_rate))

\* times_revisited * decay_rate > 0.5
decayed_raw(times_revisited, decay_rate) ==
    FLt(f5_10, FMul(FInt(times_revisited), decay_rate))

MaxRevisits == 7

\* decayed_raw tabulated once over the revisit counts and decay rates of the
\* specifications below
DecayTable ==
    [k \in (0 .. MaxRevisits) \X {f2_100, f1_10} |-> decayed_raw(k[1], k[2])]
    @@ <<>>

\* thought.times_revisited * thought.decay_rate > 0.5
decayed(thought) ==
    Lookup(DecayTable, <<thought.times_revisited, thought.decay_rate>>,
           decayed_raw(thought.times_revisited, thought.decay_rate))

\* a faulty iteration, which tests the decay before the readiness
revisit_sorted_decay_first(acc, thought, ready, id) ==
    IF decayed(thought)
    THEN [acc EXCEPT !.identity = id, !.evicted = Append(@, thought.id)]
    ELSE IF ready
    THEN [acc EXCEPT !.identity = id,
                     !.ready_thoughts = Append(@, <<thought, TRUE>>)]
    ELSE [acc EXCEPT !.identity = id,
                     !.remaining_queue = Append(@, thought)]

\* a faulty iteration, which puts a ready Thought in front of the ones found
\* ready before it
revisit_sorted_stacking(acc, thought, ready, id) ==
    IF ready
    THEN [acc EXCEPT !.identity = id,
                     !.ready_thoughts = << <<thought, TRUE>> >> \o @]
    ELSE IF decayed(thought)
    THEN [acc EXCEPT !.identity = id, !.evicted = Append(@, thought.id)]
    ELSE [acc EXCEPT !.identity = id,
                     !.remaining_queue = Append(@, thought)]

\* one iteration of the loop of revisit_queue once the Thought, revisited
\* and re-scored, has been assessed: acc is
\* [identity, ready_thoughts, evicted, remaining_queue]
revisit_sorted(acc, thought, ready, id) ==
    IF ready
    THEN [acc EXCEPT !.identity = id,
                     !.ready_thoughts = Append(@, <<thought, TRUE>>)]
    ELSE IF decayed(thought)
    THEN [acc EXCEPT !.identity = id, !.evicted = Append(@, thought.id)]
    ELSE [acc EXCEPT !.identity = id,
                     !.remaining_queue = Append(@, thought)]

\* the iteration from the assessment r of the revisited Thought on
revisit_assessed(acc, revisited, r) ==
    revisit_sorted(acc,
                   [revisited EXCEPT !.ripeness_score = r.score,
                                     !.blocking_factors = r.blocking],
                   r.ready, r.identity)

\* the iteration on a Thought whose times_revisited has been incremented
revisit_one(acc, revisited, context) ==
    revisit_assessed(acc, revisited,
                     assess_readiness(acc.identity, revisited.thought,
                                      revisited.domain, context))

\* the Thoughts of the queue the loop has been through
Sorted(acc) ==
    Len(acc.ready_thoughts) + Len(acc.evicted) + Len(acc.remaining_queue)

RECURSIVE revisit_loop(_, _, _)
\* the for loop of revisit_queue from the Thought after the ones it has been
\* through on
revisit_loop(acc, queue, context) ==
    IF Sorted(acc) >= Len(queue) THEN acc
    ELSE revisit_loop(revisit_one(acc,
                                  [queue[Sorted(acc) + 1]
                                     EXCEPT !.times_revisited = @ + 1],
                                  context),
                      queue, context)

\* revisit_queue after the loop: the queue replaced, saved, its health updated
revisit_done(acc, now) ==
    [identity |-> _update_queue_health(acc.identity, acc.remaining_queue),
     queue |-> acc.remaining_queue,
     file |-> save_queue(acc.remaining_queue, now),
     value |-> acc.ready_thoughts,
     evicted |-> acc.evicted]

\* ContemplativeSystem.revisit_queue: [identity, queue, file, value, evicted],
\* evicted the ids the pass logged as decayed
revisit_queue(id, queue, context, now) ==
    revisit_done(revisit_loop([identity |-> id, ready_thoughts |-> <<>>,
                               evicted |-> <<>>, remaining_queue |-> <<>>],
                              queue, context),
                 now)

\* f"{x:.2f}": x in hundredths, rounded half to even on its exact value
Fmt2_raw(v) ==
    LET scaled == Trim(MulLimbFrom(v.mag, 100, 1, 0))
        cents  == DropLimbs(IF scaled = <<>> THEN <<>> ELSE RoundBits(scaled, 75), 5)
    IN  <<v.neg, cents>>

\* Fmt2_raw tabulated once over the scores assess_readiness gives
Fmt2Table ==
    [v \in {RipenessTable[k][1] : k \in DOMAIN RipenessTable} \cup {FZero}
        |-> Fmt2_raw(v)] @@ <<>>

Fmt2(v) == Lookup(Fmt2Table, v, Fmt2_raw(v))

\* ContemplativeSystem.get_queue_summary: the lines as data
get_queue_summary(queue) ==
    IF queue = <<>> THEN << <<"Contemplation queue is empty.">> >>
    ELSE << <<"Contemplation queue has", Len(queue), "thoughts:">> >>
         \o [i \in DOMAIN FirstN(queue, 5) |->
                <<FirstN(queue[i].thought, 60), Fmt2(queue[i].ripeness_score),
                  queue[i].times_revisited>>]
         \o (IF Len(queue) > 5 THEN << <<"... and", Len(queue) - 5, "more">> >>
             ELSE <<>>)

----------------------------------------------------------------------------
(* experience.py                                                           *)

\* OutcomeType and AttributionType: the members, and the value of each
OutcomeType == {"SUCCESS", "PARTIAL", "FAILURE"}

OutcomeValue(outcome_type) ==
    CASE outcome_type = "SUCCESS" -> "success"
      [] outcome_type = "PARTIAL" -> "partial"
      [] outcome_type = "FAILURE" -> "failure"

AttributionType == {"SKILL", "LUCK", "EXTERNAL", "IDENTITY"}

AttributionValue(attribution) ==
    CASE attribution = "SKILL"    -> "skill"
      [] attribution = "LUCK"     -> "luck"
      [] attribution = "EXTERNAL" -> "external"
      [] attribution = "IDENTITY" -> "identity"

\* Experience.to_dict
Experience_to_dict(exp) ==
    [exp EXCEPT !.outcome_type = OutcomeValue(@),
                !.attribution = AttributionValue(@)]

\* ExperienceEngine.capture
capture(action, context, tools_used, outcome, domain, now) ==
    [timestamp |-> Iso(now),
     action |-> action,
     context |-> context,
     tools_used |-> tools_used,
     outcome |-> outcome,
     outcome_type |-> "SUCCESS",
     attribution |-> "SKILL",
     emotional_valence |-> FZero,
     severity |-> FZero,
     domain |-> domain,
     narrative |-> <<>>]

\* a faulty evaluate, which looks for the partial keywords first
evaluate_partial_first(exp, intended_goal) ==
    LET outcome_lower == lower(exp.outcome)
    IN  IF AnyIn({"partial", "incomplete", "some"}, outcome_lower)
        THEN [exp EXCEPT !.outcome_type = "PARTIAL"]
        ELSE IF AnyIn({"error", "failed", "exception", "denied"}, outcome_lower)
        THEN [exp EXCEPT !.outcome_type = "FAILURE"]
        ELSE [exp EXCEPT !.outcome_type = "SUCCESS"]

\* ExperienceEngine.evaluate
evaluate(exp, intended_goal) ==
    LET outcome_lower == lower(exp.outcome)
    IN  IF AnyIn({"error", "failed", "exception", "denied"}, outcome_lower)
        THEN [exp EXCEPT !.outcome_type = "FAILURE"]
        ELSE IF AnyIn({"partial", "incomplete", "some"}, outcome_lower)
        THEN [exp EXCEPT !.outcome_type = "PARTIAL"]
        ELSE [exp EXCEPT !.outcome_type = "SUCCESS"]

\* ExperienceEngine.attribute
attribute(id, exp) ==
    IF exp.outcome_type = "FAILURE"
    THEN IF DomainWounds(id, exp.domain) # <<>>
         THEN [exp EXCEPT !.attribution = "IDENTITY"]
         ELSE [exp EXCEPT !.attribution = "SKILL"]
    ELSE IF exp.outcome_type = "SUCCESS"
    THEN [exp EXCEPT !.attribution = "SKILL"]
    ELSE [exp EXCEPT !.attribution = "EXTERNAL"]

\* a faulty assign_valence, which gives every failure the severity 0.7
assign_valence_severe(id, exp) ==
    LET base == IF exp.outcome_type = "SUCCESS" THEN f3_10
                ELSE IF exp.outcome_type = "PARTIAL" THEN FZero
                ELSE FNeg(f3_10)
        e1 == [exp EXCEPT !.emotional_valence = base]
        domain_wounds == DomainWounds(id, exp.domain)
        e2 == IF domain_wounds # <<>> /\ exp.outcome_type = "FAILURE"
              THEN [e1 EXCEPT !.emotional_valence = FSub(@, f2_10)]
              ELSE IF domain_wounds # <<>> /\ exp.outcome_type = "SUCCESS"
              THEN [e1 EXCEPT !.emotional_valence = FAdd(@, f3_10)]
              ELSE e1
    IN  IF exp.outcome_type = "FAILURE"
        THEN [e2 EXCEPT !.severity = f7_10]
        ELSE e2

\* ExperienceEngine.assign_valence
assign_valence(id, exp) ==
    LET base == IF exp.outcome_type = "SUCCESS" THEN f3_10
                ELSE IF exp.outcome_type = "PARTIAL" THEN FZero
                ELSE FNeg(f3_10)
        e1 == [exp EXCEPT !.emotional_valence = base]
        domain_wounds == DomainWounds(id, exp.domain)
        e2 == IF domain_wounds # <<>> /\ exp.outcome_type = "FAILURE"
              THEN [e1 EXCEPT !.emotional_valence = FSub(@, f2_10),
                              !.severity = f7_10]
              ELSE IF domain_wounds # <<>> /\ exp.outcome_type = "SUCCESS"
              THEN [e1 EXCEPT !.emotional_valence = FAdd(@, f3_10)]
              ELSE e1
    IN  IF exp.outcome_type = "FAILURE" /\ domain_wounds = <<>>
        THEN [e2 EXCEPT !.severity = f5_10]
        ELSE e2

\* exp.action[:100]: the texts of the model are shorter than the slice
Slice100(text) == FirstN(text, 100)

\* integrate: the mood update
integrate_mood(id, v, now) ==
    IF FLt(FZero, v)
    THEN update_mood(id, FMul(v, f5_100), FMul(v, f5_100), FZero, now)
    ELSE update_mood(id, FMul(v, f5_100), FZero, FMul(FAbs(v), f3_100), now)

\* integrate: a value reinforced when a successful action names one of words
integrate_value(id, exp, words, principle) ==
    IF exp.outcome_type = "SUCCESS" /\ AnyIn(words, lower(exp.action))
    THEN update_value(id, principle, f2_100)
    ELSE id

\* a faulty wound formation, which takes every failure for a wound
integrate_wounds_any_failure(id, exp, now) ==
    IF exp.outcome_type = "FAILURE"
    THEN add_wound(id, exp.domain, Slice100(exp.action), exp.severity, now)
    ELSE IF exp.outcome_type = "SUCCESS" /\ DomainWounds(id, exp.domain) # <<>>
    THEN heal_wound(id, exp.domain)
    ELSE id

\* integrate: wound formation and healing
integrate_wounds(id, exp, now) ==
    IF exp.outcome_type = "FAILURE" /\ FLt(f6_10, exp.severity)
    THEN add_wound(id, exp.domain, Slice100(exp.action), exp.severity, now)
    ELSE IF exp.outcome_type = "SUCCESS" /\ DomainWounds(id, exp.domain) # <<>>
    THEN heal_wound(id, exp.domain)
    ELSE id

\* integrate: trust with the operator
integrate_trust(id, exp, now) ==
    IF HasKey(exp.context, "operator") \/ HasKey(exp.context, "user")
    THEN update_relationship(id, "operator",
                             FMul(exp.emotional_valence, f3_100), NoPattern,
                             now)
    ELSE id

\* ExperienceEngine.integrate up to the save: the Identity after the updates
integrate_updates(id, exp, now) ==
    LET mood == integrate_mood(id, exp.emotional_valence, now)
        honest == integrate_value(mood, exp, {"report", "honest"},
                                  "honest_reporting")
        learning == integrate_value(honest, exp, {"learn", "research"},
                                    "continuous_learning")
        wounds == integrate_wounds(learning, exp, now)
    IN  integrate_trust(wounds, exp, now)

\* a faulty integrate, which saves the Identity before it updates it
integrate_saving_first(id, file, exp, now, outcome) ==
    [save(id, file, now, outcome) EXCEPT
        !.identity = integrate_updates(@, exp, now)]

\* ExperienceEngine.integrate: [identity, file, raised]
integrate(id, file, exp, now, outcome) ==
    save(integrate_updates(id, exp, now), file, now, outcome)

\* ExperienceEngine.narrate: the narrative is the list of its sentences
narrate(exp) ==
    LET outcome_str == CASE exp.outcome_type = "SUCCESS" -> "succeeded"
                         [] exp.outcome_type = "PARTIAL" ->
                                "partially completed"
                         [] exp.outcome_type = "FAILURE" -> "failed"
        first == << <<"I", outcome_str, "in my attempt to", exp.action>> >>
        second ==
            IF exp.attribution = "IDENTITY"
            THEN << <<"This reflects my ongoing caution in the", exp.domain,
                      "domain.">> >>
            ELSE IF exp.attribution = "SKILL"
            THEN IF exp.outcome_type = "SUCCESS"
                 THEN << <<"This demonstrates my developing capability.">> >>
                 ELSE << <<"I need to develop my skills in this area.">> >>
            ELSE <<>>
        third ==
            IF FLt(exp.emotional_valence, FNeg(f4_10))
            THEN << <<"This experience creates hesitation for similar future actions.">> >>
            ELSE IF FLt(f4_10, exp.emotional_valence)
            THEN << <<"This success builds my confidence.">> >>
            ELSE <<>>
    IN  [exp EXCEPT !.narrative = first \o second \o third]

\* a faulty _save_experience, which opens the log for writing and not for
\* appending
_save_experience_rewriting(experiences, exp) == <<Experience_to_dict(exp)>>

\* ExperienceEngine._save_experience: the log with the record appended
_save_experience(experiences, exp) ==
    Append(experiences, Experience_to_dict(exp))

\* a faulty process, which goes on after a failed save of the Identity
process_integrated_swallowing(integrated, experiences, exp) ==
    [identity |-> integrated.identity,
     file |-> integrated.file,
     experiences |-> _save_experience(experiences, exp),
     raised |-> FALSE,
     value |-> exp]

\* process from the integration on: exp is the narrated Experience; when the
\* save of integrate raised, the rest of process did not run
process_integrated(integrated, experiences, exp) ==
    [identity |-> integrated.identity,
     file |-> integrated.file,
     experiences |-> IF integrated.raised THEN experiences
                     ELSE _save_experience(experiences, exp),
     raised |-> integrated.raised,
     value |-> IF integrated.raised THEN <<>> ELSE exp]

\* process from the Experience that assign_valence returned on
process_weighed(id, file, experiences, exp, now, save_outcome) ==
    process_integrated(integrate(id, file, exp, now, save_outcome),
                       experiences, narrate(exp))

\* ExperienceEngine.process: [identity, file, experiences, raised, value]
process(id, file, experiences, action, context, tools_used, outcome, intended_goal, domain, now, save_outcome) ==
    LET captured == capture(action, context, tools_used, outcome, domain, now)
        evaluated == evaluate(captured,
                              IF intended_goal # <<>> THEN intended_goal
                              ELSE action)
        attributed == attribute(id, evaluated)
        weighed == assign_valence(id, attributed)
    IN  process_weighed(id, file, experiences, weighed, now, save_outcome)

\* OutcomeType(value) and AttributionType(value): the member with that
\* value; none for an invalid one
OutcomeOf(value) == {o \in OutcomeType : OutcomeValue(o) = value}

AttributionOf(value) == {a \in AttributionType : AttributionValue(a) = value}

\* Experience.from_dict(json.loads(line)) raises: the line is no JSON
\* object, a required key is missing, or an enum value is invalid
Experience_from_dict_raises(data) ==
    \/ \E k \in {"timestamp", "action", "outcome", "outcome_type",
                  "attribution", "emotional_valence", "severity", "domain"} :
           ~HasKey(data, k)
    \/ OutcomeOf(data["outcome_type"]) = {}
    \/ AttributionOf(data["attribution"]) = {}

\* Experience.from_dict, of a dict it accepts
Experience_from_dict(data) ==
    [timestamp |-> data["timestamp"],
     action |-> data["action"],
     context |-> Get(data, "context", EmptyDict),
     tools_used |-> Get(data, "tools_used", <<>>),
     outcome |-> data["outcome"],
     outcome_type |-> CHOOSE o \in OutcomeOf(data["outcome_type"]) : TRUE,
     attribution |-> CHOOSE a \in AttributionOf(data["attribution"]) : TRUE,
     emotional_valence |-> data["emotional_valence"],
     severity |-> data["severity"],
     domain |-> data["domain"],
     narrative |-> Get(data, "narrative", <<>>)]

\* lines[-count:]: the last count lines when count > 0; every line when
\* count = 0, since -0 is 0; the lines after the first -count otherwise
LastLines(lines, count) ==
    IF count > 0 THEN LastN(lines, count)
    ELSE IF -count >= Len(lines) THEN <<>>
    ELSE SubSeq(lines, 1 - count, Len(lines))

\* ExperienceEngine.get_recent_experiences: [value, warnings], the
\* Experiences returned and the lines it warned about
get_recent_experiences(experiences, count) ==
    LET lines == LastLines(experiences, count)
        parsed == SelectSeq(lines, LAMBDA l : ~Experience_from_dict_raises(l))
    IN  [value |-> [i \in DOMAIN parsed |-> Experience_from_dict(parsed[i])],
         warnings |-> SelectSeq(lines,
                                LAMBDA l : Experience_from_dict_raises(l))]

----------------------------------------------------------------------------
(* The state                                                               *)

VARIABLES
    identity,             \* the IdentityCore the three components share
    identity_file,        \* the persisted Identity document
    contemplation_queue,  \* ContemplativeSystem.contemplation_queue
    queue_file,           \* the persisted contemplation queue document
    experience_log,       \* the lines of experiences.jsonl
    clock,                \* the last reading of datetime.now()
    call,                 \* the last operation called, with its arguments
    ret,                  \* what it returned, or that it raised
    log,                  \* what it sent to the logger
    steps,                \* the operations called so far
    peer                  \* a second agent process over the same files

vars == <<identity, identity_file, contemplation_queue, queue_file,
          experience_log, clock, call, ret, log, steps, peer>>

\* no second process runs
NoPeer == [running |-> FALSE]

Returned(value) == [raised |-> FALSE, value |-> value]

Raised == [raised |-> TRUE]

NoCall == [op |-> "none"]

\* what the constructor logs
InitLog(id_file, now) ==
    IF id_file.kind # "absent" /\ load(BlankIdentity(now), id_file, now).failed
    THEN <<"Failed to load identity">> ELSE <<>>

\* a fresh process: IdentityCore and ContemplativeSystem constructed over the
\* files on disk, at clock reading now
Constructed(id_file, q_file, now) ==
    /\ identity = IdentityCore(id_file, now)
    /\ identity_file = id_file
    /\ contemplation_queue = load_queue(q_file)
    /\ queue_file = q_file
    /\ experience_log = <<>>
    /\ clock = now
    /\ call = [op |-> "__init__"]
    /\ ret = Returned(<<>>)
    /\ log = InitLog(id_file, now)
    /\ steps = 0
    /\ peer = NoPeer

\* the process starts again: both components are constructed anew over the
\* files on disk
Restart ==
    /\ identity' = IdentityCore(identity_file, clock)
    /\ contemplation_queue' = load_queue(queue_file)
    /\ call' = [op |-> "__init__"]
    /\ ret' = Returned(<<>>)
    /\ log' = InitLog(identity_file, clock)
    /\ steps' = steps + 1
    /\ UNCHANGED <<peer, identity_file, queue_file, experience_log, clock>>

Loaded(r) ==
    /\ identity' = r.identity
    /\ call' = [op |-> "load"]
    /\ ret' = Returned(<<>>)
    /\ log' = IF r.failed THEN <<"Failed to load identity">> ELSE <<>>
    /\ steps' = steps + 1
    /\ UNCHANGED <<peer, identity_file, contemplation_queue, queue_file,
                   experience_log, clock>>

\* identity.load() on the running instance
LoadCall == Loaded(load(identity, identity_file, clock))

Processed(r, args) ==
    /\ identity' = r.identity
    /\ identity_file' = r.file
    /\ experience_log' = r.experiences
    /\ call' = args
    /\ ret' = IF r.raised THEN Raised ELSE Returned(r.value)
    /\ log' = <<>>
    /\ steps' = steps + 1
    /\ UNCHANGED <<peer, contemplation_queue, queue_file, clock>>

\* engine.process(...), the disk treating the Identity save as save_outcome
Process(action, context, tools_used, outcome, intended_goal, domain, save_outcome) ==
    Processed(process(identity, identity_file, experience_log, action,
                      context, tools_used, outcome, intended_goal, domain,
                      clock, save_outcome),
              [op |-> "process", action |-> action, context |-> context,
               tools_used |-> tools_used, outcome |-> outcome,
               intended_goal |-> intended_goal, domain |-> domain,
               save_outcome |-> save_outcome])

\* datetime.now() reads a later instant
Tick ==
    /\ clock' = clock + 1
    /\ UNCHANGED <<peer, identity, identity_file, contemplation_queue, queue_file,
                   experience_log, call, ret, log, steps>>

NoteCall(thought_text, domain) ==
    /\ identity' = note_identity(identity, thought_text)
    /\ call' = [op |-> "note", thought_text |-> thought_text,
                domain |-> domain]
    /\ ret' = Returned(note_category(thought_text))
    /\ log' = <<>>
    /\ steps' = steps + 1
    /\ UNCHANGED <<peer, identity_file, contemplation_queue, queue_file,
                   experience_log, clock>>

Assessed(r, args) ==
    /\ identity' = r.identity
    /\ call' = args
    /\ ret' = Returned(<<r.ready, r.score, r.blocking>>)
    /\ log' = <<>>
    /\ steps' = steps + 1
    /\ UNCHANGED <<peer, identity_file, contemplation_queue, queue_file,
                   experience_log, clock>>

AssessReadiness(thought_text, domain, context) ==
    Assessed(assess_readiness(identity, thought_text, domain, context),
             [op |-> "assess_readiness", thought_text |-> thought_text,
              domain |-> domain, context |-> context])

Contemplated(r, args) ==
    /\ identity' = r.identity
    /\ contemplation_queue' = r.queue
    /\ queue_file' = r.file
    /\ call' = args
    /\ ret' = Returned(r.value)
    /\ log' = <<>>
    /\ steps' = steps + 1
    /\ UNCHANGED <<peer, identity_file, experience_log, clock>>

Contemplate(thought_text, domain, context) ==
    Contemplated(contemplate(identity, contemplation_queue, queue_file,
                             thought_text, domain, context, clock),
                 [op |-> "contemplate", thought_text |-> thought_text,
                  domain |-> domain, context |-> context])

Revisited(r, args) ==
    /\ identity' = r.identity
    /\ contemplation_queue' = r.queue
    /\ queue_file' = r.file
    /\ call' = args
    /\ ret' = Returned(r.value)
    /\ log' = r.evicted
    /\ steps' = steps + 1
    /\ UNCHANGED <<peer, identity_file, experience_log, clock>>

RevisitQueue(context) ==
    Revisited(revisit_queue(identity, contemplation_queue, context, clock),
              [op |-> "revisit_queue", context |-> context])

GetQueueSummary ==
    /\ call' = [op |-> "get_queue_summary"]
    /\ ret' = Returned(get_queue_summary(contemplation_queue))
    /\ log' = <<>>
    /\ steps' = steps + 1
    /\ UNCHANGED <<peer, identity, identity_file, contemplation_queue, queue_file,
                   experience_log, clock>>

GetRecentExperiences(count) ==
    /\ call' = [op |-> "get_recent_experiences", count |-> count]
    /\ ret' = Returned(get_recent_experiences(experience_log, count).value)
    /\ log' = get_recent_experiences(experience_log, count).warnings
    /\ steps' = steps + 1
    /\ UNCHANGED <<peer, identity, identity_file, contemplation_queue, queue_file,
                   experience_log, clock>>

----------------------------------------------------------------------------
(* Spec: one agent process working its contemplation queue                 *)

MaxSteps == 4

MaxQueue == 2

MaxClock == 2

Contexts == {EmptyDict, [urgent |-> TRUE]}

Texts == { <<"Should", "refund">>, <<"worry">> }

Domains == {"financial", "general"}

Init == Constructed(NoFile, NoFile, 1)

GateTick == clock < MaxClock /\ Tick

GateNote ==
    /\ steps < MaxSteps
    /\ \E t \in Texts : NoteCall(t, "general")

GateAssess ==
    /\ steps < MaxSteps
    /\ \E t \in Texts, d \in Domains, c \in Contexts : AssessReadiness(t, d, c)

GateContemplate ==
    /\ steps < MaxSteps
    /\ Len(contemplation_queue) < MaxQueue
    /\ \E t \in Texts, d \in Domains, c \in Contexts : Contemplate(t, d, c)

GateRevisit ==
    /\ steps < MaxSteps
    /\ \E c \in Contexts : RevisitQueue(c)

GateSummary == steps < MaxSteps /\ GetQueueSummary

Next ==
    \/ GateTick
    \/ GateNote
    \/ GateAssess
    \/ GateContemplate
    \/ GateRevisit
    \/ GateSummary

Spec == Init /\ [][Next]_vars

----------------------------------------------------------------------------
(* Properties of the contemplation gate, under Spec                        *)

\* the step is a call of op (Tick is no call)
Called(op) == steps' = steps + 1 /\ call'.op = op

Ids(queue) == [i \in DOMAIN queue |-> queue[i].id]

\* C1, as the specification states it: after any sequence of contemplate
\* and revisit_queue calls no two Thoughts of the contemplation queue have
\* the same id.  The id is <<queue length, clock reading>>; the length
\* repeats after a promotion, and a second reading of the clock can equal the
\* first, so this does not hold.
C1_NoDuplicateIds ==
    \A i, j \in DOMAIN contemplation_queue :
        i # j => contemplation_queue[i].id # contemplation_queue[j].id

\* what identifies a queued Thought through a revisit: everything the
\* pass does not rewrite
Kept(thought) ==
    <<thought.id, thought.thought, thought.first_arising, thought.decay_rate,
      thought.domain, thought.noting>>

\* the Thoughts of the queue that a revisit under context neither promotes
\* nor evicts: not assessed ready, and (times_revisited + 1) * decay_rate
\* not above 0.5
Survivors(context) ==
    SelectSeq(contemplation_queue,
              LAMBDA t :
                  /\ ~assess_readiness(identity, t.thought, t.domain,
                                       context).ready
                  /\ ~decayed([t EXCEPT !.times_revisited = @ + 1]))

\* C2: a Thought leaves the contemplation queue only inside revisit_queue,
\* and only because that pass assessed it ready or because it was not ready
\* and times_revisited * decay_rate > 0.5; every other operation keeps each
\* queued Thought, unchanged and in its place.
C2_RemovalOnlyInRevisit ==
    [][ /\ ~Called("revisit_queue") =>
             /\ Len(contemplation_queue') >= Len(contemplation_queue)
             /\ \A i \in DOMAIN contemplation_queue :
                    contemplation_queue'[i] = contemplation_queue[i]
        /\ Called("revisit_queue") =>
             LET kept == Survivors(call'.context)
             IN  /\ Len(contemplation_queue') = Len(kept)
                 /\ \A i \in DOMAIN kept :
                        Kept(contemplation_queue'[i]) = Kept(kept[i])
      ]_vars

\* a revisit has just promoted one Thought and kept another
C2_Witness ==
    /\ call.op = "revisit_queue"
    /\ Len(ret.value) = 1
    /\ Len(contemplation_queue) = 1
    /\ contemplation_queue[1].times_revisited = 1

\* C4: contemplate returns ready exactly when assess_readiness is ready on
\* the same arguments; when ready the queue is unchanged and the ratio
\* becomes 0.9 * old + 0.1; when not ready exactly one Thought is appended
\* at the end, carrying the computed score, blocking factors, noting and
\* domain, its id is returned, the ratio becomes 0.9 * old, and the
\* persisted queue is the queue.
C4_Contemplate ==
    [][ Called("contemplate") =>
          LET a == assess_readiness(identity, call'.thought_text,
                                    call'.domain, call'.context)
              old == identity.contemplative_state.action_contemplation_ratio
              new == identity'.contemplative_state.action_contemplation_ratio
              n == Len(contemplation_queue)
          IN  /\ ret'.value[1] = a.ready
              /\ a.ready =>
                   /\ ret'.value[2] = <<"ready">>
                   /\ contemplation_queue' = contemplation_queue
                   /\ queue_file' = queue_file
                   /\ new = FAdd(FMul(f90_100, old), f1_10)
              /\ ~a.ready =>
                   /\ Len(contemplation_queue') = n + 1
                   /\ SubSeq(contemplation_queue', 1, n) = contemplation_queue
                   /\ LET t == contemplation_queue'[n + 1]
                      IN  /\ t.id = ret'.value[2]
                          /\ t.thought = call'.thought_text
                          /\ t.ripeness_score = a.score
                          /\ t.blocking_factors = a.blocking
                          /\ t.noting = note_category(call'.thought_text)
                          /\ t.domain = call'.domain
                          /\ t.times_revisited = 0
                   /\ new = FMul(f90_100, old)
                   /\ load_queue(queue_file') = contemplation_queue'
      ]_vars

\* the reacting, urgent thought has just been deferred in the financial
\* domain (threshold 0.85) with a score of 0.5 + 0.2 - 0.15, which passes the
\* threshold 0.5
C4_Witness ==
    /\ call.op = "contemplate"
    /\ call.domain = "financial"
    /\ Urgent(call.context)
    /\ ret.value[1] = FALSE
    /\ Len(contemplation_queue) = 2
    /\ contemplation_queue[2].id = ret.value[2]
    /\ contemplation_queue[2].noting = "REACTING"
    /\ FLe(f5_10, contemplation_queue[2].ripeness_score)
    /\ FLt(contemplation_queue[2].ripeness_score, f85_100)

\* C6, as the specification states it: a call of assess_readiness leaves
\* every field of the Identity, the noting history included, and the
\* contemplation queue unchanged.  The call notes the thought, which appends
\* to noting_patterns["most_common"], so this does not hold.
C6_AssessReadsOnly ==
    [][ Called("assess_readiness") =>
          /\ identity' = identity
          /\ contemplation_queue' = contemplation_queue ]_vars

----------------------------------------------------------------------------
(* SpecStore: a process over a persisted Identity document, which loads it, *)
(* processes experiences and saves it on a disk that can fail               *)

MaxStoreSteps == 2

\* an Identity as an earlier run left it: a wound, a capability, a
\* relationship, a trust level and an awakening preference of its own
StoredIdentity ==
    [DefaultIdentity(0) EXCEPT
       !.wounds = <<Wound("financial", <<"refund">>, f80_100, Iso(0), FALSE)>>,
       !.capabilities = ("search" :> Capability("search", f7_10, Iso(0))),
       !.relationships =
           ("operator" :> Relationship("operator", f6_10, "supportive",
                                       Iso(0))),
       !.awakening_preference = [current |-> "more", reason |-> "curious"],
       !.trust_level = f6_10]

GoodDocument == document(StoredIdentity)

\* the dict without the key
Drop(d, k) == [j \in DOMAIN d \ {k} |-> d[j]]

\* the documents a process may find: the one an earlier run saved, whole, or
\* with one part missing or of the wrong JSON type
StoredDocuments ==
    { GoodDocument,
      Drop(GoodDocument, "wounds"),
      Null,
      [GoodDocument EXCEPT !.values[1] = Drop(@, "weight")],
      [GoodDocument EXCEPT !.capabilities["search"] = Drop(@, "last_tested")],
      [GoodDocument EXCEPT !.wounds[1] = Drop(@, "created")],
      [GoodDocument EXCEPT !.relationships["operator"] = Drop(@, "trust")],
      [GoodDocument EXCEPT !.mood_baseline = Null],
      [GoodDocument EXCEPT !.current_mood = Null],
      [GoodDocument EXCEPT !.contemplative_state = Null],
      [GoodDocument EXCEPT !.awakening_preference = Null] }

StoredFiles == {NoFile, Garbage} \cup {JsonFile(d) : d \in StoredDocuments}

\* <<action, context, outcome, domain>> of the experiences processed
ProcessInputs ==
    { << <<"Report", "balance">>, [operator |-> "ana"], <<"done">>,
         "financial" >>,
      << <<"refund">>, EmptyDict, <<"Error:", "denied">>, "financial" >>,
      << <<"research", "topic">>, [user |-> "ana"], <<"partial">>,
         "general" >>,
      << <<"refund">>, EmptyDict, <<"failed">>, "general" >> }

InitStore == \E f \in StoredFiles : Constructed(f, NoFile, 1)

StoreTick == clock < MaxClock /\ Tick

StoreLoad == steps < MaxStoreSteps /\ LoadCall

StoreRestart == steps < MaxStoreSteps /\ Restart

StoreProcess ==
    /\ steps < MaxStoreSteps
    /\ \E i \in ProcessInputs, o \in SaveOutcomes :
           Process(i[1], i[2], <<>>, i[3], <<>>, i[4], o)

NextStore ==
    \/ StoreTick
    \/ StoreLoad
    \/ StoreRestart
    \/ StoreProcess

SpecStore == InitStore /\ [][NextStore]_vars

----------------------------------------------------------------------------
(* Properties of the Identity Store, under SpecStore                       *)

\* the fields of an Identity that a default aggregate fixes: all but the
\* instants at which it was created and last touched
Aggregate(id) ==
    [id EXCEPT !.created = NoTime, !.last_updated = NoTime,
               !.current_mood.updated = NoTime]

\* C9, as the specification states it: when load fails while deserializing
\* the persisted document, the Identity afterwards equals the default
\* aggregate in every field, with no wounds, capabilities, relationships,
\* awakening preference or trust_level of the document or of the earlier
\* in-memory state.  _initialize_default assigns only name, origin story,
\* values, aspirations, moods and contemplative state, so what load had
\* already taken from the document, or the instance held before, stays: this
\* does not hold.
C9_LoadFallsBackToDefault ==
    log = <<"Failed to load identity">> =>
        Aggregate(identity) = Aggregate(DefaultIdentity(0))

\* C10: when the save of the Identity fails during process, process raises
\* to its caller and appends no Experience record to the experience log.
C10_SaveFailurePropagates ==
    [][ Called("process") /\ call'.save_outcome # "ok" =>
          /\ ret' = Raised
          /\ experience_log' = experience_log ]_vars

\* a process call has just raised on a failed write, after an earlier call
\* had recorded its Experience
C10_Witness ==
    /\ call.op = "process"
    /\ call.save_outcome = "write_fails"
    /\ ret = Raised
    /\ Len(experience_log) = 1

----------------------------------------------------------------------------
(* SpecScore: a process whose persisted Identity has a mood and wounds of  *)
(* its own, assessing thoughts                                             *)

MaxScoreSteps == 2

\* <<energy, focus>> of the persisted current mood: the default, low energy,
\* energy at 0.3 with low focus, both low, focus at 0.4
ScoreMoods ==
    { <<f6_10, f7_10>>, <<f2_10, f7_10>>, <<f3_10, f3_10>>, <<f2_10, f3_10>>,
      <<f6_10, f4_10>> }

\* the persisted wounds: none, one unhealed in the financial domain, that one
\* healed beside an unhealed one elsewhere, two unhealed in the domain
ScoreWounds ==
    { <<>>,
      <<Wound("financial", <<"refund">>, f80_100, Iso(0), FALSE)>>,
      <<Wound("financial", <<"refund">>, f80_100, Iso(0), TRUE),
        Wound("general", <<"reply">>, f5_10, Iso(0), FALSE)>>,
      <<Wound("financial", <<"refund">>, f5_10, Iso(0), FALSE),
        Wound("financial", <<"transfer">>, f80_100, Iso(0), FALSE)>> }

ScoreDocuments ==
    { document([DefaultIdentity(0) EXCEPT
                   !.current_mood = Mood(m[1], f7_10, m[2], Iso(0)),
                   !.wounds = w]) : m \in ScoreMoods, w \in ScoreWounds }

ScoreTexts ==
    { <<"hello">>,
      <<"Should", "refund">>,
      <<"worry">>,
      <<"maybe">>,
      <<"need more", "maybe">>,
      <<"missing information", "IRREVERSIBLE", "must">>,
      <<"cannot undo", "risk">>,
      <<"thinking">> }

ScoreDomains == {"financial", "general", "routine"}

InitScore == \E d \in ScoreDocuments : Constructed(JsonFile(d), NoFile, 1)

ScoreNote ==
    /\ steps < MaxScoreSteps
    /\ \E t \in {<<"hello">>, <<"worry">>} : NoteCall(t, "general")

ScoreAssess ==
    /\ steps < MaxScoreSteps
    /\ \E t \in ScoreTexts, d \in ScoreDomains, c \in Contexts :
           AssessReadiness(t, d, c)

NextScore ==
    \/ ScoreNote
    \/ ScoreAssess

SpecScore == InitScore /\ [][NextScore]_vars

----------------------------------------------------------------------------
(* SpecAssess: the same process making one assessment                      *)

MaxAssessSteps == 1

AssessOnce ==
    /\ steps < MaxAssessSteps
    /\ \E t \in ScoreTexts, d \in ScoreDomains, c \in Contexts :
           AssessReadiness(t, d, c)

SpecAssess == InitScore /\ [][AssessOnce]_vars

----------------------------------------------------------------------------
(* Properties of assess_readiness, under SpecScore and SpecAssess          *)

\* the Identity with another noting history
Renoted(id, history) ==
    [id EXCEPT !.contemplative_state.noting_patterns =
                   IF history = <<>> THEN EmptyDict
                   ELSE Put(@, "most_common", history)]

\* <<ready, score, blocking_factors>> of a result of assess_readiness
Tuple(r) == <<r.ready, r.score, r.blocking>>

\* C5: assess_readiness is deterministic.  A call returns what it returns on
\* the same text, domain and context for any Identity of the same mood,
\* wounds and thresholds (whatever thoughts were noted before), and a call
\* that directly follows a call with the same arguments on the same instance
\* returns the same (ready, score, blocking_factors).
C5_Deterministic ==
    [][ Called("assess_readiness") =>
          /\ \A history \in { <<>>, <<"anxious">>,
                              <<"calm", "reacting", "calm">> } :
                 ret'.value =
                     Tuple(assess_readiness(Renoted(identity, history),
                                            call'.thought_text, call'.domain,
                                            call'.context))
          /\ ( /\ call.op = "assess_readiness"
               /\ call.thought_text = call'.thought_text
               /\ call.domain = call'.domain
               /\ call.context = call'.context ) => ret' = ret
      ]_vars

\* a second assessment of an urgent worry has directly followed a first, both
\* ready
C5_Witness ==
    /\ call.op = "assess_readiness"
    /\ steps = 2
    /\ call.thought_text = <<"worry">>
    /\ Urgent(call.context)
    /\ identity.contemplative_state.noting_patterns["most_common"]
           = <<"anxious", "anxious">>
    /\ ret.value[1]

\* x and y differ by no more than 2^-40: equal but for the rounding of the
\* doubles
FClose(x, y) == FLe(FAbs(FSub(x, y)), Float(FALSE, Pow2Mag(35)))

\* the caution levels of the wounds, in hundredths
Hundredths(x) ==
    CASE x = f3_10 -> 30
      [] x = f5_10 -> 50
      [] x = f7_10 -> 70
      [] x = f80_100 -> 80
      [] x = f1 -> 100

\* the score of the specification in thousandths, before the clamp: 0.5
\* less 0.2, 0.15, 0.1, 0.3 * caution, 0.25 and the noting penalty, plus 0.2
Thousandths(info, low_focus, low_energy, wounded, caution, urgent, irrev, noting) ==
    500 - (IF info THEN 200 ELSE 0) - (IF low_focus THEN 150 ELSE 0)
        - (IF low_energy THEN 100 ELSE 0) - (IF wounded THEN 3 * caution ELSE 0)
        + (IF urgent THEN 200 ELSE 0) - (IF irrev THEN 250 ELSE 0)
        - (CASE noting = "ANXIOUS" -> 200
             [] noting = "REACTING" -> 150
             [] noting = "UNCERTAIN" -> 100
             [] OTHER -> 0)

\* C7: assess_readiness computes the score as the clamp to [0, 1] of 0.5
\* - 0.2 (insufficient information) - 0.15 (focus < 0.4) - 0.1 (energy <
\* 0.3) - 0.3 * (max caution_level of the unhealed wounds of the domain)
\* + 0.2 (urgent) - 0.25 (irreversibility) - the noting penalty (anxious
\* 0.2, reacting 0.15, uncertain 0.1), the sum taken in that order in double
\* arithmetic and so within rounding of its decimal value; the blocking
\* factors are the tags of the triggered penalties, in that order, urgent
\* adding none; ready holds exactly when the score is at least the threshold
\* of the domain, 0.5 for an unknown domain.
C7_Score ==
    [][ Called("assess_readiness") =>
          LET text == lower(call'.thought_text)
              info == In("missing information", text) \/ In("need more", text)
              low_focus == FLt(identity.current_mood.focus, f4_10)
              low_energy == FLt(identity.current_mood.energy, f3_10)
              wounds == { identity.wounds[i] : i \in
                            { j \in DOMAIN identity.wounds :
                                /\ identity.wounds[j].domain = call'.domain
                                /\ ~identity.wounds[j].healed } }
              caution == CHOOSE c \in {w.caution_level : w \in wounds} :
                             \A w \in wounds : FLe(w.caution_level, c)
              urgent == Urgent(call'.context)
              irrev == In("irreversible", text) \/ In("cannot undo", text)
              noting == note_category(call'.thought_text)
              a1 == IF info THEN FSub(f5_10, f2_10) ELSE f5_10
              a2 == IF low_focus THEN FSub(a1, f15_100) ELSE a1
              a3 == IF low_energy THEN FSub(a2, f1_10) ELSE a2
              a4 == IF wounds # {} THEN FSub(a3, FMul_raw(caution, f3_10))
                    ELSE a3
              a5 == IF urgent THEN FAdd(a4, f2_10) ELSE a4
              a6 == IF irrev THEN FSub(a5, f25_100) ELSE a5
              a7 == CASE noting = "ANXIOUS" -> FSub(a6, f2_10)
                      [] noting = "REACTING" -> FSub(a6, f15_100)
                      [] noting = "UNCERTAIN" -> FSub(a6, f1_10)
                      [] OTHER -> a6
              score == IF a7.neg THEN FZero ELSE IF FLt(f1, a7) THEN f1 ELSE a7
              exact == Thousandths(info, low_focus, low_energy, wounds # {},
                                   IF wounds # {} THEN Hundredths(caution)
                                   ELSE 0,
                                   urgent, irrev, noting)
              tags == << <<info, "insufficient_information">>,
                         <<low_focus, "low_focus">>,
                         <<low_energy, "low_energy">>,
                         <<wounds # {}, "domain_wound">>,
                         <<irrev, "irreversible">>,
                         <<noting = "ANXIOUS", "anxious_state">>,
                         <<noting = "REACTING", "reactive_state">>,
                         <<noting = "UNCERTAIN", "uncertainty">> >>
              triggered == SelectSeq(tags, LAMBDA t : t[1])
              thresholds == identity.contemplative_state.domain_thresholds
              threshold == IF call'.domain \in DOMAIN thresholds
                           THEN thresholds[call'.domain] ELSE f5_10
          IN  /\ ret'.value[2] = score
              /\ FClose(ret'.value[2],
                        FDec(IF exact < 0 THEN 0
                             ELSE IF exact > 1000 THEN 1000 ELSE exact, 1000))
              /\ ret'.value[3] = [i \in DOMAIN triggered |-> triggered[i][2]]
              /\ ret'.value[1] = FLe(threshold, ret'.value[2])
      ]_vars

\* an assessment in the wounded financial domain has just returned not ready
\* with the wound, the mood and the noting as blocking factors, urgent among
\* the adjustments
C7_Witness ==
    /\ call.op = "assess_readiness"
    /\ call.domain = "financial"
    /\ Urgent(call.context)
    /\ ret.value[1] = FALSE
    /\ FLt(FZero, ret.value[2])
    /\ ret.value[3] = <<"low_energy", "domain_wound", "reactive_state">>

f24_100 == FDec(24, 100)

\* the call assesses a thought in a domain whose only unhealed wound has
\* caution_level 0.8
OneWound ==
    /\ Called("assess_readiness")
    /\ Len(DomainWounds(identity, call'.domain)) = 1
    /\ DomainWounds(identity, call'.domain)[1].caution_level = f80_100

\* the score of the same thought, mood and context without the wounds
WoundFree ==
    assess_readiness([identity EXCEPT !.wounds = <<>>], call'.thought_text,
                     call'.domain, call'.context).score

\* C8, as the specification states it: the score in a domain with one
\* unhealed wound of caution_level 0.8 is 0.24 lower than the score of the
\* same thought, mood and context in a wound-free domain.  Read even up to
\* the rounding of the doubles, this fails wherever the clamp at 0 cuts the
\* wounded score.
C8_ExactlyLower ==
    [][ OneWound => FClose(FSub(WoundFree, ret'.value[2]), f24_100) ]_vars

\* C8, amended: the score in a domain with one unhealed wound of
\* caution_level 0.8 is, up to the rounding of the doubles, the score of the
\* same thought, mood and context in a wound-free domain less 0.24, or 0
\* where that would be negative, the score being clamped to [0, 1].
C8_LowerOrZero ==
    [][ OneWound =>
          FClose(ret'.value[2], FMaxOf(FZero, FSub(WoundFree, f24_100)))
      ]_vars

\* an assessment in the wounded financial domain has just scored 0 although
\* the thought would score above 0, and less than 0.24, without the wound
C8_Witness ==
    /\ call.op = "assess_readiness"
    /\ call.domain = "financial"
    /\ Len(DomainWounds(identity, "financial")) = 1
    /\ DomainWounds(identity, "financial")[1].caution_level = f80_100
    /\ ret.value[2] = FZero
    /\ call.thought_text = <<"cannot undo", "risk">>
    /\ ~Urgent(call.context)
    /\ "low_energy" \notin {ret.value[3][i] : i \in DOMAIN ret.value[3]}

----------------------------------------------------------------------------
(* SpecDecay: a process that finds a persisted contemplation queue and     *)
(* revisits it pass after pass                                             *)

MaxDecaySteps == 7

\* a persisted Thought: its dict, with a decay rate and a revisit count
Waiting(id, thought, domain, decay_rate, times_revisited) ==
    to_dict([Thought(id, thought, Iso(0), FZero, <<>>, domain,
                     note_category(thought))
               EXCEPT !.decay_rate = decay_rate,
                      !.times_revisited = times_revisited])

\* a refund in the financial domain, whose threshold 0.85 no score reaches;
\* a worry, which scores 0.3, or 0.49999999999999994 when urgent, under the
\* threshold 0.5; a greeting, ready at once; a transfer already revisited
\* three times
WaitingThoughts ==
    { Waiting("a", <<"refund">>, "financial", f1_10, 0),
      Waiting("b", <<"worry">>, "general", f1_10, 0),
      Waiting("c", <<"hello">>, "general", f2_100, 0),
      Waiting("d", <<"Should", "transfer">>, "financial", f1_10, 3) }

\* the persisted queues: one Thought, or two different ones
WaitingQueues ==
    {<<t>> : t \in WaitingThoughts}
    \cup {q \in {<<t, u>> : t \in WaitingThoughts, u \in WaitingThoughts} :
              q[1] # q[2]}

\* a persisted Thought whose noting is no value of NotingCategory
Mistyped == [Waiting("e", <<"worry">>, "general", f1_10, 0)
               EXCEPT !.noting = "pondering"]

\* the persisted queues with such an entry, alone or after a sound one
MistypedQueues ==
    { <<Mistyped>>,
      <<Waiting("a", <<"refund">>, "financial", f1_10, 0), Mistyped>> }

InitDecay ==
    \E q \in WaitingQueues \cup MistypedQueues :
        Constructed(NoFile, JsonFile([queue |-> q, updated |-> Iso(0)]), 1)

DecayTick == clock < MaxClock /\ Tick

DecayRevisit ==
    /\ steps < MaxDecaySteps
    /\ \E c \in Contexts : RevisitQueue(c)

NextDecay ==
    \/ DecayTick
    \/ DecayRevisit

SpecDecay == InitDecay /\ [][NextDecay]_vars

----------------------------------------------------------------------------
(* Properties of the decay of queued Thoughts, under SpecDecay             *)

\* the Thought is in the queue, revisited n times
Queued(queue, id, n) ==
    \E j \in DOMAIN queue : queue[j].id = id /\ queue[j].times_revisited = n

\* C3: a Thought that a pass of revisit_queue does not assess ready stays
\* queued, revisited once more, while times_revisited * decay_rate is at
\* most 0.5, and is evicted in the first pass where the product exceeds 0.5;
\* with decay_rate 0.1 it is still queued after its 5th revisit and evicted
\* in its 6th.
C3_DecayEviction ==
    [][ Called("revisit_queue") =>
          \A i \in DOMAIN contemplation_queue :
              LET t == contemplation_queue[i]
                  n == t.times_revisited + 1
                  ready == assess_readiness(identity, t.thought, t.domain,
                                            call'.context).ready
                  stays == Queued(contemplation_queue', t.id, n)
                  evicted == \E j \in DOMAIN log' : log'[j] = t.id
              IN  ~ready =>
                    /\ stays <=> FLe(FMul(FInt(n), t.decay_rate), f5_10)
                    /\ evicted <=> ~stays
                    /\ t.decay_rate = f1_10 => (stays <=> n <= 5)
      ]_vars

\* the sixth pass over the refund has just evicted it
C3_Witness ==
    /\ call.op = "revisit_queue"
    /\ steps = 6
    /\ log = <<"a">>
    /\ ~Queued(contemplation_queue, "a", 6)

----------------------------------------------------------------------------
(* Properties of deserialization, under SpecDecay                          *)

\* the persisted queue document holds an entry Thought.from_dict rejects
\* for its noting
HoldsInvalidNoting(file) ==
    /\ file.kind = "json"
    /\ \E i \in DOMAIN file.data.queue :
           NotingOf(Get(file.data.queue[i], "noting", "planning")) = {}

\* C11, as the specification states it: a persisted queue entry with an
\* invalid enum string makes the deserialization fail fast with an error
\* reported to the caller, and the queue is not silently replaced by an
\* empty one.  load_queue catches the ValueError of NotingCategory(...),
\* logs it and returns, so the constructor returns normally with an empty
\* queue: this does not hold.
C11_InvalidEnumFailsFast ==
    call.op = "__init__" /\ HoldsInvalidNoting(queue_file) => ret = Raised

----------------------------------------------------------------------------
(* SpecMutate: a process that starts from the default Identity and calls   *)
(* the mutators of the Identity, the gate and the pipeline in any order    *)

\* a mutator of IdentityCore called directly: it returns None
Mutated(id, args) ==
    /\ identity' = id
    /\ call' = args
    /\ ret' = Returned(<<>>)
    /\ log' = <<>>
    /\ steps' = steps + 1
    /\ UNCHANGED <<peer, identity_file, contemplation_queue, queue_file,
                   experience_log, clock>>

UpdateValue(principle, delta) ==
    Mutated(update_value(identity, principle, delta),
            [op |-> "update_value", principle |-> principle, delta |-> delta])

AddWound(domain, incident, caution_level) ==
    Mutated(add_wound(identity, domain, incident, caution_level, clock),
            [op |-> "add_wound", domain |-> domain, incident |-> incident,
             caution_level |-> caution_level])

HealWound(domain) ==
    Mutated(heal_wound(identity, domain),
            [op |-> "heal_wound", domain |-> domain])

UpdateRelationship(entity, trust_delta, pattern) ==
    Mutated(update_relationship(identity, entity, trust_delta, pattern, clock),
            [op |-> "update_relationship", entity |-> entity,
             trust_delta |-> trust_delta, pattern |-> pattern])

UpdateMood(energy_delta, optimism_delta, focus_delta) ==
    Mutated(update_mood(identity, energy_delta, optimism_delta, focus_delta,
                        clock),
            [op |-> "update_mood", energy_delta |-> energy_delta,
             optimism_delta |-> optimism_delta, focus_delta |-> focus_delta])

MaxMutateSteps == 3

\* arguments far outside the ranges and inside them
Deltas == {FNeg(FInt(3)), FNeg(f2_100), FInt(3)}

Cautions3 == {f7_10, FInt(3)}

MoodDeltas == { <<FInt(3), FNeg(FInt(3)), FZero>>,
                <<FNeg(FInt(3)), f5_100, FInt(3)>> }

MutateValue ==
    /\ steps < MaxMutateSteps
    /\ \E p \in {"honest_reporting", "patience"}, d \in Deltas :
           UpdateValue(p, d)

MutateAddWound ==
    /\ steps < MaxMutateSteps
    /\ \E d \in Domains, c \in Cautions3 : AddWound(d, <<"refund">>, c)

MutateHealWound ==
    /\ steps < MaxMutateSteps
    /\ \E d \in Domains : HealWound(d)

MutateRelationship ==
    /\ steps < MaxMutateSteps
    /\ \E d \in Deltas : UpdateRelationship("operator", d, NoPattern)

MutateMood ==
    /\ steps < MaxMutateSteps
    /\ \E m \in MoodDeltas : UpdateMood(m[1], m[2], m[3])

MutateContemplate ==
    /\ steps < MaxMutateSteps
    /\ \E t \in Texts, d \in Domains, c \in Contexts : Contemplate(t, d, c)

MutateRevisit == steps < MaxMutateSteps /\ RevisitQueue([urgent |-> TRUE])

MutateProcess ==
    /\ steps < MaxMutateSteps
    /\ \E i \in ProcessInputs, o \in {"ok", "open_fails"} :
           Process(i[1], i[2], <<>>, i[3], <<>>, i[4], o)

NextMutate ==
    \/ MutateValue
    \/ MutateAddWound
    \/ MutateHealWound
    \/ MutateRelationship
    \/ MutateMood
    \/ MutateContemplate
    \/ MutateRevisit
    \/ MutateProcess

SpecMutate == Init /\ [][NextMutate]_vars

----------------------------------------------------------------------------
(* Properties of the Identity under its mutators, under SpecMutate         *)

\* C12: across add_wound, heal_wound, process, contemplate and
\* revisit_queue calls the wounds list only grows at its end; a wound that
\* exists keeps its domain, incident, caution_level and created, and a
\* healed wound stays healed.
C12_WoundsAppendOnly ==
    [][ /\ steps' = steps + 1
        /\ call'.op \in {"add_wound", "heal_wound", "process", "contemplate",
                         "revisit_queue"}
        => /\ Len(identity'.wounds) >= Len(identity.wounds)
           /\ \A i \in DOMAIN identity.wounds :
                 /\ identity'.wounds[i].domain = identity.wounds[i].domain
                 /\ identity'.wounds[i].incident = identity.wounds[i].incident
                 /\ identity'.wounds[i].caution_level
                        = identity.wounds[i].caution_level
                 /\ identity'.wounds[i].created = identity.wounds[i].created
                 /\ identity.wounds[i].healed => identity'.wounds[i].healed
      ]_vars

\* a wound was added, a failing experience in its domain added a second
\* one, and heal_wound has just healed both
C12_Witness ==
    /\ call.op = "heal_wound"
    /\ Len(identity.wounds) = 2
    /\ identity.wounds[1].healed
    /\ identity.wounds[2].healed
    /\ identity.wounds[2].incident = <<"refund">>
    /\ Len(experience_log) = 1

----------------------------------------------------------------------------
(* Properties of the Experience pipeline, under SpecStore                  *)

\* the Experience of a process call as assign_valence leaves it, from the
\* arguments of the call and the Identity it finds
Weighed(id, args, now) ==
    assign_valence(id,
        attribute(id,
            evaluate(capture(args.action, args.context, args.tools_used,
                             args.outcome, args.domain, now),
                     args.action)))

\* the wounds of the domain that are not healed
Unhealed(wounds, domain) ==
    {i \in DOMAIN wounds : wounds[i].domain = domain /\ ~wounds[i].healed}

\* C13: in process, a failure with severity > 0.6 appends exactly one new
\* unhealed wound for the domain of the experience, with caution_level equal
\* to the severity; a success in a domain with unhealed wounds leaves no
\* wound of that domain unhealed and the wounds of other domains as they
\* were; in every other case the wounds are unchanged.
C13_WoundFormationAndHealing ==
    [][ Called("process") =>
          LET exp == Weighed(identity, call', clock)
              before == identity.wounds
              after == identity'.wounds
          IN  IF exp.outcome_type = "FAILURE" /\ FLt(f6_10, exp.severity)
              THEN /\ Len(after) = Len(before) + 1
                   /\ SubSeq(after, 1, Len(before)) = before
                   /\ after[Len(after)].domain = exp.domain
                   /\ after[Len(after)].caution_level = exp.severity
                   /\ ~after[Len(after)].healed
              ELSE IF exp.outcome_type = "SUCCESS"
                      /\ Unhealed(before, exp.domain) # {}
              THEN /\ Unhealed(after, exp.domain) = {}
                   /\ Len(after) = Len(before)
                   /\ \A i \in DOMAIN before :
                         /\ before[i].domain # exp.domain
                               => after[i] = before[i]
                         /\ [after[i] EXCEPT !.healed = FALSE]
                               = [before[i] EXCEPT !.healed = FALSE]
              ELSE after = before
      ]_vars

\* a failure in the wounded financial domain added a second wound there, and
\* a success in that domain has just healed both
C13_Witness ==
    /\ call.op = "process"
    /\ call.outcome = <<"done">>
    /\ Len(identity.wounds) = 2
    /\ identity.wounds[2].caution_level = f7_10
    /\ Unhealed(identity.wounds, "financial") = {}

\* |x - y| <= 0.05
Within5Hundredths(x, y) == FLe(FAbs(FSub(x, y)), f5_100)

\* C14: one call of process changes each Value.weight and each
\* Relationship.trust that existed before the call by at most 0.05 in
\* absolute value.
C14_GradualDrift ==
    [][ Called("process") =>
          /\ \A i \in DOMAIN identity.values :
                Within5Hundredths(identity'.values[i].weight,
                                  identity.values[i].weight)
          /\ \A e \in DOMAIN identity.relationships :
                Within5Hundredths(identity'.relationships[e].trust,
                                  identity.relationships[e].trust)
      ]_vars

\* a report to the operator has just succeeded: honest_reporting went from
\* 0.95 to 0.97 and the trust in the operator rose above its 0.6
C14_Witness ==
    /\ call.op = "process"
    /\ call.action = <<"Report", "balance">>
    /\ Len(identity.values) = 4
    /\ identity.values[2].weight = FAdd(f95_100, f2_100)
    /\ HasKey(identity.relationships, "operator")
    /\ FLt(f6_10, identity.relationships["operator"].trust)

----------------------------------------------------------------------------
(* SpecValue: update_value on an Identity whose persisted document holds   *)
(* one value, of any weight in [0,1]                                       *)

MaxValueSteps == 2

f98_100 == FDec(98, 100)

StartWeights == {FZero, f2_100, f5_10, f98_100, f1}

ValueDeltas ==
    {FNeg(FInt(3)), FNeg(f5_100), FNeg(f2_100), f2_100, f5_100, FInt(3)}

InitValue ==
    \E w \in StartWeights :
        Constructed(JsonFile(document([DefaultIdentity(0) EXCEPT
                                          !.values = <<Value("patience", w)>>])),
                    NoFile, 1)

ValueUpdate ==
    /\ steps < MaxValueSteps
    /\ \E p \in {"patience", "courage"}, d \in ValueDeltas : UpdateValue(p, d)

SpecValue == InitValue /\ [][ValueUpdate]_vars

\* the weights of the values other than the i-th are as they were
OthersKept(before, after, i) ==
    \A j \in DOMAIN before : j # i => after[j] = before[j]

\* 0 <= x <= 1
InUnit(x) == FLe(FZero, x) /\ FLe(x, f1)

\* C15, as the specification states it: update_value(p, d) on an existing
\* principle changes the weight by exactly clamp(d, -0.05, 0.05) and leaves
\* it in [0,1]; on an unknown principle it creates the value with weight
\* clamp(0.5 + clamp(d, -0.05, 0.05), 0, 1).  From weight 1.0 a delta of 0.05
\* leaves the weight at 1.0, a change of 0: this does not hold.
C15_ExactChange ==
    [][ Called("update_value") =>
          LET p == call'.principle
              cd == Clamp(FNeg(f5_100), f5_100, call'.delta)
              i == ValueIndex(identity.values, p)
          IN  IF i # 0
              THEN /\ FSub(identity'.values[i].weight,
                           identity.values[i].weight) = cd
                   /\ InUnit(identity'.values[i].weight)
              ELSE identity'.values =
                      Append(identity.values,
                             Value(p, Clamp(FZero, f1, FAdd(f5_10, cd))))
      ]_vars

\* C15, amended: on an existing principle of weight w the new weight is in
\* [0,1] and is w + clamp(d, -0.05, 0.05) up to the rounding of the
\* addition where that sum is in [0,1], 0 where the sum is below 0 and 1
\* where it is above 1, the other values staying as they were; on an unknown
\* principle the value is appended with weight 0.5 + clamp(d, -0.05, 0.05),
\* which is in [0.45, 0.55].
C15_ClampedChange ==
    [][ Called("update_value") =>
          LET p == call'.principle
              d == call'.delta
              cd == IF FLt(d, FNeg(f5_100)) THEN FNeg(f5_100)
                    ELSE IF FLt(f5_100, d) THEN f5_100 ELSE d
              i == ValueIndex(identity.values, p)
          IN  IF i # 0
              THEN /\ Len(identity'.values) = Len(identity.values)
                   /\ OthersKept(identity.values, identity'.values, i)
                   /\ identity'.values[i].principle = p
                   /\ InUnit(identity'.values[i].weight)
                   /\ IF FLt(FAdd(identity.values[i].weight, cd), FZero)
                      THEN identity'.values[i].weight = FZero
                      ELSE IF FLt(f1, FAdd(identity.values[i].weight, cd))
                      THEN identity'.values[i].weight = f1
                      ELSE FClose(FSub(identity'.values[i].weight,
                                       identity.values[i].weight), cd)
              ELSE /\ Len(identity'.values) = Len(identity.values) + 1
                   /\ SubSeq(identity'.values, 1, Len(identity.values))
                          = identity.values
                   /\ identity'.values[Len(identity'.values)].principle = p
                   /\ identity'.values[Len(identity'.values)].weight
                          = FAdd(f5_10, cd)
                   /\ FLe(FDec(45, 100),
                          identity'.values[Len(identity'.values)].weight)
                   /\ FLe(identity'.values[Len(identity'.values)].weight,
                          FDec(55, 100))
      ]_vars

\* update_value("patience", 3.0) has just left the weight 1.0 where it was,
\* after update_value("courage", -3.0) created courage with weight 0.45
C15_Witness ==
    /\ call.op = "update_value"
    /\ call.principle = "patience"
    /\ call.delta = FInt(3)
    /\ Len(identity.values) = 2
    /\ identity.values[1].weight = f1
    /\ identity.values[2] = Value("courage", FDec(45, 100))

\* -1 <= x <= 1
InSignedUnit(x) == FLe(FNeg(f1), x) /\ FLe(x, f1)

\* C16: starting from the default Identity, after any sequence of
\* update_value, add_wound, heal_wound, update_relationship, update_mood,
\* contemplate, revisit_queue and process calls, every Value.weight,
\* Wound.caution_level, Relationship.trust, mood energy, optimism and focus,
\* Thought.ripeness_score and the action_contemplation_ratio is in [0,1],
\* and every Experience produced has emotional_valence in [-1,1] and
\* severity in [0,1].
C16_BoundedFields ==
    /\ \A i \in DOMAIN identity.values : InUnit(identity.values[i].weight)
    /\ \A i \in DOMAIN identity.wounds :
          InUnit(identity.wounds[i].caution_level)
    /\ \A e \in DOMAIN identity.relationships :
          InUnit(identity.relationships[e].trust)
    /\ InUnit(identity.current_mood.energy)
    /\ InUnit(identity.current_mood.optimism)
    /\ InUnit(identity.current_mood.focus)
    /\ InUnit(identity.mood_baseline.energy)
    /\ InUnit(identity.mood_baseline.optimism)
    /\ InUnit(identity.mood_baseline.focus)
    /\ InUnit(identity.contemplative_state.action_contemplation_ratio)
    /\ \A i \in DOMAIN contemplation_queue :
          InUnit(contemplation_queue[i].ripeness_score)
    /\ \A i \in DOMAIN experience_log :
          /\ InSignedUnit(experience_log[i].emotional_valence)
          /\ InUnit(experience_log[i].severity)
    /\ call.op = "process" /\ ~ret.raised =>
          /\ InSignedUnit(ret.value.emotional_valence)
          /\ InUnit(ret.value.severity)

\* update_mood(3, -3, 0) and add_wound with caution 3 were clamped to the
\* ends of the range, and a process call has just recorded its Experience
C16_Witness ==
    /\ call.op = "process"
    /\ Len(experience_log) = 1
    /\ Len(identity.wounds) >= 1
    /\ identity.wounds[1].caution_level = f1
    /\ identity.current_mood.optimism = FZero

----------------------------------------------------------------------------
(* Properties of persistence, under SpecStore                              *)

\* the Identity a fresh IdentityCore takes from the file, constructed at a
\* later instant than any the file can hold
Reloaded(file) == load(BlankIdentity(MaxClock + 1), file, MaxClock + 1)

\* C17: after every process call that returns normally the persisted
\* Identity document is the one of the in-memory Identity, and a load right
\* after it reproduces the in-memory aggregate in every field.
C17_PersistedAfterProcess ==
    [][ Called("process") /\ ~ret'.raised =>
          /\ identity_file' = JsonFile(document(identity'))
          /\ ~Reloaded(identity_file').failed
          /\ Reloaded(identity_file').identity = identity'
      ]_vars

\* a process call has just returned after adding a second wound and
\* touching the mood, and the file holds both wounds
C17_Witness ==
    /\ call.op = "process"
    /\ ~ret.raised
    /\ Len(identity.wounds) = 2
    /\ identity_file.kind = "json"
    /\ Len(identity_file.data.wounds) = 2
    /\ identity_file.data.last_updated = Iso(clock)

\* C18: when a save was interrupted after it had started to write the
\* Identity document, a later load takes no field from the incomplete
\* document: it fails as on any unreadable file, and a fresh process comes up
\* with the default aggregate.
C18_NoPartialDocument ==
    [][ /\ call.op = "process"
        /\ call.save_outcome = "write_fails"
        /\ steps' = steps + 1
        /\ call'.op \in {"load", "__init__"}
        => /\ log' = <<"Failed to load identity">>
           /\ call'.op = "load" =>
                 identity' = load(identity, Garbage, clock).identity
           /\ call'.op = "__init__" =>
                 /\ identity' = IdentityCore(Garbage, clock)
                 /\ Aggregate(identity') = Aggregate(DefaultIdentity(0))
      ]_vars

\* a process call was interrupted while it wrote a document with two
\* wounds, and the process has just started again over that file
C18_Witness ==
    /\ call.op = "__init__"
    /\ steps = 2
    /\ identity_file.kind = "truncated"
    /\ Len(identity_file.data.wounds) = 2
    /\ identity.wounds = <<>>
    /\ log = <<"Failed to load identity">>

\* C19: saving the Identity and loading the saved document into a fresh
\* Identity reproduces the aggregate in every field: values, wounds and
\* aspirations in the same order, capabilities and relationships by key,
\* and the moods, the contemplative state, the awakening preference, the
\* trust_level and the timestamps.
C19_RoundTrip ==
    LET saved == save(identity, identity_file, clock, "ok")
        fresh == Reloaded(saved.file)
    IN  /\ ~fresh.failed
        /\ fresh.identity.values = saved.identity.values
        /\ fresh.identity.wounds = saved.identity.wounds
        /\ fresh.identity.aspirations = saved.identity.aspirations
        /\ DOMAIN fresh.identity.capabilities
               = DOMAIN saved.identity.capabilities
        /\ \A n \in DOMAIN saved.identity.capabilities :
               fresh.identity.capabilities[n] = saved.identity.capabilities[n]
        /\ DOMAIN fresh.identity.relationships
               = DOMAIN saved.identity.relationships
        /\ \A e \in DOMAIN saved.identity.relationships :
               fresh.identity.relationships[e]
                   = saved.identity.relationships[e]
        /\ fresh.identity = saved.identity

\* a process call healed the wound and saved the Identity, and the process
\* that has just started again over the saved document holds the same
\* aggregate: the healed wound, the capability, the relationship, the
\* awakening preference and the trust level
C19_Witness ==
    /\ call.op = "__init__"
    /\ steps = 2
    /\ Len(experience_log) = 1
    /\ identity_file = JsonFile(document(identity))
    /\ Len(identity.wounds) = 1
    /\ identity.wounds[1].healed
    /\ HasKey(identity.capabilities, "search")
    /\ HasKey(identity.relationships, "operator")
    /\ identity.awakening_preference.current = "more"
    /\ identity.trust_level = f6_10
    /\ identity.last_updated = Iso(1)

----------------------------------------------------------------------------
(* SpecRace: two agent processes, each with its own IdentityCore and       *)
(* ContemplativeSystem loaded from the same files, calling contemplate and *)
(* revisit_queue in any interleaving, with no lock on the queue file       *)

MaxRaceSteps == 3

\* the second process: its Identity and its contemplation_queue
Peer(id, queue) == [running |-> TRUE, identity |-> id, queue |-> queue]

\* both processes constructed over the same files, which do not exist yet
InitRace ==
    /\ identity = IdentityCore(NoFile, 1)
    /\ identity_file = NoFile
    /\ contemplation_queue = load_queue(NoFile)
    /\ queue_file = NoFile
    /\ experience_log = <<>>
    /\ clock = 1
    /\ call = [op |-> "__init__"]
    /\ ret = Returned(<<>>)
    /\ log = <<>>
    /\ steps = 0
    /\ peer = Peer(IdentityCore(NoFile, 1), load_queue(NoFile))

\* a call of the second process: r is what the operation gave
PeerCalled(r, args) ==
    /\ peer' = Peer(r.identity, r.queue)
    /\ queue_file' = r.file
    /\ call' = args
    /\ ret' = Returned(r.value)
    /\ log' = <<>>
    /\ steps' = steps + 1
    /\ UNCHANGED <<identity, identity_file, contemplation_queue,
                   experience_log, clock>>

PeerContemplate(thought_text, domain, context) ==
    PeerCalled(contemplate(peer.identity, peer.queue, queue_file,
                           thought_text, domain, context, clock),
               [op |-> "contemplate", by |-> "peer",
                thought_text |-> thought_text, domain |-> domain,
                context |-> context])

PeerRevisitQueue(context) ==
    PeerCalled(revisit_queue(peer.identity, peer.queue, context, clock),
               [op |-> "revisit_queue", by |-> "peer", context |-> context])

RaceTick == clock < MaxClock /\ Tick

RaceContemplate ==
    /\ steps < MaxRaceSteps
    /\ \E t \in Texts, d \in Domains, c \in Contexts : Contemplate(t, d, c)

RaceRevisit ==
    /\ steps < MaxRaceSteps
    /\ \E c \in Contexts : RevisitQueue(c)

RacePeerContemplate ==
    /\ steps < MaxRaceSteps
    /\ \E t \in Texts, d \in Domains, c \in Contexts :
           PeerContemplate(t, d, c)

RacePeerRevisit ==
    /\ steps < MaxRaceSteps
    /\ \E c \in Contexts : PeerRevisitQueue(c)

NextRace ==
    \/ RaceTick
    \/ RaceContemplate
    \/ RaceRevisit
    \/ RacePeerContemplate
    \/ RacePeerRevisit

SpecRace == InitRace /\ [][NextRace]_vars

----------------------------------------------------------------------------
(* Properties of the shared queue file, under SpecRace                     *)

\* the dicts of the Thoughts of a queue, as save_queue writes them
Dicts(queue) == [i \in DOMAIN queue |-> to_dict(queue[i])]

\* the persisted queue holds a Thought with the text
Persisted(file, thought_text) ==
    /\ file.kind = "json"
    /\ \E i \in DOMAIN file.data.queue :
           file.data.queue[i].thought = thought_text

\* the call of the step was made by the second process
ByPeer(c) == HasKey(c, "by")

\* C20: with two processes over one queue file and no locking, every write
\* of the file replaces it by the in-memory queue of the writer alone, which
\* a contemplate call extends by its one Thought and a revisit_queue call
\* only shortens, whatever the other process had persisted; so an
\* interleaving leaves a persisted queue without a Thought that the other
\* process enqueued and still holds.
C20_LastWriterWins ==
    [][ steps' = steps + 1 /\ call'.op \in {"contemplate", "revisit_queue"} =>
          LET before == IF ByPeer(call') THEN peer.queue
                        ELSE contemplation_queue
              after == IF ByPeer(call') THEN peer'.queue
                       ELSE contemplation_queue'
          IN  /\ queue_file' # queue_file =>
                    queue_file'.data.queue = Dicts(after)
              /\ call'.op = "contemplate" /\ ~ret'.value[1] =>
                    /\ Len(after) = Len(before) + 1
                    /\ SubSeq(after, 1, Len(before)) = before
                    /\ queue_file'.data.queue = Dicts(after)
              /\ call'.op = "contemplate" /\ ret'.value[1] =>
                    /\ after = before
                    /\ queue_file' = queue_file
              /\ call'.op = "revisit_queue" =>
                    /\ Len(after) <= Len(before)
                    /\ queue_file'.data.queue = Dicts(after)
      ]_vars

\* the first process enqueued its worry and persisted it; the second, whose
\* queue was loaded before that, has just enqueued a refund and written the
\* file: the worry is still queued in the first process, neither promoted
\* nor evicted, and the persisted queue lacks it
C20_Witness ==
    /\ call.op = "contemplate"
    /\ ByPeer(call)
    /\ Len(contemplation_queue) = 1
    /\ contemplation_queue[1].thought = <<"worry">>
    /\ Persisted(queue_file, <<"Should", "refund">>)
    /\ ~Persisted(queue_file, <<"worry">>)

----------------------------------------------------------------------------
(* SpecPass: a process that finds a persisted contemplation queue, and     *)
(* whose Identity changes between the passes of revisit_queue over it      *)

MaxPassSteps == 3

\* a transfer revisited five times at decay rate 0.1: in its sixth pass it
\* scores 0.55 when urgent, over the threshold 0.5 of its domain, and 0.35
\* otherwise; a greeting, ready while mood and wounds take nothing off; the
\* same greeting and a refund in the financial domain; their ids are those
\* of an earlier run, at clock reading 0
PassQueues ==
    LET f == Waiting(ThoughtId(0, 0), <<"Should", "transfer">>, "general",
                     f1_10, 5)
        c == Waiting(ThoughtId(1, 0), <<"hello">>, "general", f2_100, 0)
        h == Waiting(ThoughtId(2, 0), <<"hello">>, "financial", f2_100, 0)
        a == Waiting(ThoughtId(3, 0), <<"refund">>, "financial", f1_10, 0)
    IN  { <<f, c>>, <<c, f>>, <<c, h>>, <<h, c, f, a>> }

PassTexts == { <<"hello">>, <<"worry">> }

PassDomains == {"financial", "communication", "general"}

InitPass ==
    \E q \in PassQueues :
        Constructed(NoFile, JsonFile([queue |-> q, updated |-> Iso(0)]), 1)

PassMood ==
    /\ steps < MaxPassSteps
    /\ \E m \in MoodDeltas : UpdateMood(m[1], m[2], m[3])

PassWound ==
    /\ steps < MaxPassSteps
    /\ \E d \in {"financial", "general"} : AddWound(d, <<"refund">>, f7_10)

PassContemplate ==
    /\ steps < MaxPassSteps
    /\ \E t \in PassTexts, d \in PassDomains, c \in Contexts :
           Contemplate(t, d, c)

PassRevisit ==
    /\ steps < MaxPassSteps
    /\ \E c \in Contexts : RevisitQueue(c)

NextPass ==
    \/ PassMood
    \/ PassWound
    \/ PassContemplate
    \/ PassRevisit

SpecPass == InitPass /\ [][NextPass]_vars

----------------------------------------------------------------------------
(* Properties of one pass of revisit_queue, under SpecPass                 *)

\* the Thoughts of sub are Thoughts of seq revisited once more, met in seq
\* in the order they have in sub
Embeds(sub, seq) ==
    \E at \in [DOMAIN sub -> DOMAIN seq] :
        /\ \A i, j \in DOMAIN sub : i < j => at[i] < at[j]
        /\ \A i \in DOMAIN sub :
               /\ Kept(sub[i]) = Kept(seq[at[i]])
               /\ sub[i].times_revisited = seq[at[i]].times_revisited + 1

\* the Thoughts a pass returned, without the flag each is paired with
Promoted(value) == [i \in DOMAIN value |-> value[i][1]]

\* C21: revisit_queue returns the Thoughts promoted to ready in this pass in
\* their queue (arrival) order, and the Thoughts that stay queued keep their
\* relative arrival order.
C21_ArrivalOrder ==
    [][ Called("revisit_queue") =>
          /\ Embeds(Promoted(ret'.value), contemplation_queue)
          /\ Embeds(contemplation_queue', contemplation_queue)
      ]_vars

\* an urgent pass over greeting(financial), greeting, transfer, refund has
\* just promoted the second and the third and kept the other two
C21_Witness ==
    /\ call.op = "revisit_queue"
    /\ Ids(Promoted(ret.value)) = <<ThoughtId(1, 0), ThoughtId(0, 0)>>
    /\ Ids(contemplation_queue) = <<ThoughtId(2, 0), ThoughtId(3, 0)>>

\* the number of the three statements that hold
HowMany(p, q, r) ==
    (IF p THEN 1 ELSE 0) + (IF q THEN 1 ELSE 0) + (IF r THEN 1 ELSE 0)

\* the Thought as a pass leaves it when the assessment of the pass is r
Rescored(thought, r) ==
    [thought EXCEPT !.times_revisited = @ + 1,
                    !.ripeness_score = r.score,
                    !.blocking_factors = r.blocking]

\* C29: in one revisit_queue pass every Thought queued at the start has
\* times_revisited incremented by exactly 1 and its score and blocking
\* factors recomputed from the Identity as it is at the pass (not as it was
\* at enqueue), and ends in exactly one of three outcomes: returned as ready
\* and removed, evicted, or still queued; a Thought assessed ready is
\* promoted even when its times_revisited * decay_rate exceeds 0.5.
C29_OnePass ==
    [][ Called("revisit_queue") =>
          /\ Len(ret'.value) + Len(log') + Len(contemplation_queue')
                 = Len(contemplation_queue)
          /\ \A i \in DOMAIN contemplation_queue :
                 LET r == assess_readiness(identity,
                                           contemplation_queue[i].thought,
                                           contemplation_queue[i].domain,
                                           call'.context)
                     after == Rescored(contemplation_queue[i], r)
                     promoted == \E j \in DOMAIN ret'.value :
                                     ret'.value[j] = <<after, TRUE>>
                     queued == \E j \in DOMAIN contemplation_queue' :
                                   contemplation_queue'[j] = after
                     evicted == \E j \in DOMAIN log' :
                                    log'[j] = contemplation_queue[i].id
                     anywhere == {ret'.value[j][1].id : j \in DOMAIN ret'.value}
                                 \cup {contemplation_queue'[j].id :
                                          j \in DOMAIN contemplation_queue'}
                 IN  /\ HowMany(promoted, queued, evicted) = 1
                     /\ evicted => contemplation_queue[i].id \notin anywhere
                     /\ r.ready => promoted
      ]_vars

\* after a wound formed in the financial domain an urgent pass has promoted
\* the transfer in its sixth revisit, at 6 * 0.1 > 0.5, and kept the
\* financial greeting with the wound among its blocking factors
C29_Witness ==
    /\ call.op = "revisit_queue"
    /\ \E j \in DOMAIN ret.value :
           /\ ret.value[j][1].id = ThoughtId(0, 0)
           /\ ret.value[j][1].times_revisited = 6
           /\ decayed(ret.value[j][1])
    /\ \E j \in DOMAIN contemplation_queue :
           /\ contemplation_queue[j].id = ThoughtId(2, 0)
           /\ contemplation_queue[j].times_revisited = 1
           /\ contemplation_queue[j].blocking_factors = <<"domain_wound">>

\* the threshold of the domain is above 0.7
Guarded(id, domain) ==
    FLt(f7_10, Get(id.contemplative_state.domain_thresholds, domain, f5_10))

\* the score is at most 0.7, and at most 0.5 without the urgent flag
UnderCeiling(score, context) ==
    /\ FLe(score, f7_10)
    /\ ~Urgent(context) => FLe(score, f5_10)

\* C30: the ripeness score never exceeds 0.7 (0.5 without the urgent flag),
\* so for a domain whose threshold is above 0.7, such as the default
\* financial (0.85) and communication (0.75) domains, contemplate never
\* returns ready and revisit_queue never promotes a Thought, whatever the
\* text, mood, wounds and context.
C30_GuardedDomains ==
    [][ /\ Called("contemplate") =>
             /\ UnderCeiling(assess_readiness(identity, call'.thought_text,
                                              call'.domain,
                                              call'.context).score,
                             call'.context)
             /\ Guarded(identity, call'.domain) => ret'.value[1] = FALSE
        /\ Called("revisit_queue") =>
             /\ \A j \in DOMAIN ret'.value :
                    /\ UnderCeiling(ret'.value[j][1].ripeness_score,
                                    call'.context)
                    /\ ~Guarded(identity, ret'.value[j][1].domain)
             /\ \A j \in DOMAIN contemplation_queue' :
                    UnderCeiling(contemplation_queue'[j].ripeness_score,
                                 call'.context)
      ]_vars

\* an urgent pass has scored the calm greeting of the financial domain 0.7,
\* the most a score can be, and left it queued
C30_Witness ==
    /\ call.op = "revisit_queue"
    /\ Urgent(call.context)
    /\ \E j \in DOMAIN contemplation_queue :
           /\ contemplation_queue[j].domain = "financial"
           /\ contemplation_queue[j].ripeness_score = f7_10
           /\ contemplation_queue[j].times_revisited = 1

----------------------------------------------------------------------------
(* SpecHealth: a process that finds a long persisted queue and revisits it *)

MaxHealthSteps == 3

\* a persisted queue of staying refunds of the financial domain, which no
\* pass finds ready, followed by leaving ones, which the next pass evicts at
\* 6 * 0.1 > 0.5
HealthQueue(staying, leaving) ==
    [i \in 1 .. (staying + leaving) |->
        IF i <= staying
        THEN Waiting(ThoughtId(i - 1, 0), <<"refund">>, "financial", f2_100, 0)
        ELSE Waiting(ThoughtId(i - 1, 0), <<"refund">>, "financial", f1_10, 5)]

\* queues whose first pass leaves 0, 1, 4, 5, 14, 15 and 16 Thoughts
HealthQueues ==
    { HealthQueue(k[1], k[2]) :
        k \in { <<0, 0>>, <<0, 1>>, <<1, 0>>, <<1, 1>>, <<4, 0>>, <<4, 1>>,
                <<5, 0>>, <<5, 1>>, <<14, 0>>, <<14, 1>>, <<15, 0>>,
                <<15, 1>>, <<16, 0>> } }

InitHealth ==
    \E q \in HealthQueues :
        Constructed(NoFile, JsonFile([queue |-> q, updated |-> Iso(0)]), 1)

HealthTick == clock < MaxClock /\ Tick

HealthRevisit ==
    /\ steps < MaxHealthSteps
    /\ \E c \in Contexts : RevisitQueue(c)

NextHealth ==
    \/ HealthTick
    \/ HealthRevisit

SpecHealth == InitHealth /\ [][NextHealth]_vars

\* the classification of a queue length
HealthOf(n) ==
    CASE n = 0               -> "healthy"
      [] n \in 1 .. 4        -> "balanced"
      [] n \in 5 .. 14       -> "backlogged"
      [] n >= 15             -> "stagnant"

\* C22: after every revisit_queue pass, ContemplativeState.queue_health
\* equals the classification of the resulting queue length: 0 is healthy,
\* 1 to 4 balanced, 5 to 14 backlogged, 15 or more stagnant.
C22_QueueHealth ==
    [][ Called("revisit_queue") =>
          identity'.contemplative_state.queue_health
              = HealthOf(Len(contemplation_queue'))
      ]_vars

\* a pass over fifteen Thoughts has just evicted one: fourteen remain, and
\* the queue is backlogged
C22_Witness ==
    /\ call.op = "revisit_queue"
    /\ Len(log) = 1
    /\ Len(contemplation_queue) = 14
    /\ identity.contemplative_state.queue_health = "backlogged"

----------------------------------------------------------------------------
(* Properties of the experience log, under SpecStore                       *)

\* C23: each process call that returns appends exactly one record to the
\* experience log, after all records appended before it, and never changes
\* or removes an earlier record; the order of records in the log is the
\* order of the process calls.
C23_LogAppendOnly ==
    [][ /\ Len(experience_log') >= Len(experience_log)
        /\ \A i \in DOMAIN experience_log :
               experience_log'[i] = experience_log[i]
        /\ Called("process") /\ ~ret'.raised =>
               experience_log'
                   = Append(experience_log, Experience_to_dict(ret'.value))
        /\ ~(Called("process") /\ ~ret'.raised) =>
               experience_log' = experience_log
      ]_vars

\* the second process call has returned: its record is the second of the
\* log, after the record of a different action
C23_Witness ==
    /\ call.op = "process"
    /\ ~ret.raised
    /\ Len(experience_log) = 2
    /\ experience_log[2] = Experience_to_dict(ret.value)
    /\ experience_log[1].action # experience_log[2].action

----------------------------------------------------------------------------
(* SpecRecall: a process that finds an experience log an earlier run left, *)
(* reads its tail and processes further experiences                        *)

MaxRecallSteps == 2

MaxCount == 4

MaxLines == 3

\* the record process writes for the action, at clock reading 0
Line(action) ==
    Experience_to_dict(
        process(DefaultIdentity(0), NoFile, <<>>, action, EmptyDict, <<>>,
                <<"done">>, <<>>, "general", 0, "ok").value)

\* the lines a log may hold: two records as process wrote them; a record
\* without the optional context; a record without its outcome; a record
\* whose outcome_type is no value of OutcomeType; a line that is no JSON
\* object
Lines ==
    { Line(<<"refund">>),
      Line(<<"Report", "balance">>),
      Drop(Line(<<"refund">>), "context"),
      Drop(Line(<<"refund">>), "outcome"),
      [Line(<<"refund">>) EXCEPT !.outcome_type = "triumph"],
      Null }

Logs == UNION {[1 .. n -> Lines] : n \in 0 .. MaxLines}

InitRecall ==
    /\ identity = IdentityCore(NoFile, 1)
    /\ identity_file = NoFile
    /\ contemplation_queue = load_queue(NoFile)
    /\ queue_file = NoFile
    /\ experience_log \in Logs
    /\ clock = 1
    /\ call = [op |-> "__init__"]
    /\ ret = Returned(<<>>)
    /\ log = <<>>
    /\ steps = 0
    /\ peer = NoPeer

RecallRecent ==
    /\ steps < MaxRecallSteps
    /\ \E count \in 0 .. MaxCount : GetRecentExperiences(count)

RecallProcess ==
    /\ steps < MaxRecallSteps
    /\ Process(<<"research", "topic">>, EmptyDict, <<>>, <<"partial">>, <<>>,
               "general", "ok")

NextRecall ==
    \/ RecallRecent
    \/ RecallProcess

SpecRecall == InitRecall /\ [][NextRecall]_vars

\* the Experiences of the lines that Experience.from_dict accepts, in the
\* order of the lines
WellFormed(lines) ==
    LET parsed == SelectSeq(lines, LAMBDA l : ~Experience_from_dict_raises(l))
    IN  [i \in DOMAIN parsed |-> Experience_from_dict(parsed[i])]

\* C24, as the specification states it: for every count >= 0,
\* get_recent_experiences(count) returns at most count Experiences, the
\* well-formed ones among the last count lines of the log, in log order; a
\* malformed line is skipped without raising.  With count = 0 the slice
\* lines[-0:] is the whole log, and every well-formed record is returned, so
\* this does not hold.
C24_RecentTail ==
    [][ Called("get_recent_experiences") =>
          /\ ~ret'.raised
          /\ Len(ret'.value) <= call'.count
          /\ ret'.value = WellFormed(LastN(experience_log, call'.count))
      ]_vars

----------------------------------------------------------------------------
(* SpecPipeline: a process that loads what an earlier run stored and puts  *)
(* experiences of every kind of outcome through the pipeline               *)

MaxPipelineSteps == 2

\* outcomes with a failure keyword, alone, inside a token and next to a
\* partial keyword; with partial keywords only; with neither
PipelineOutcomes ==
    { <<"Error:", "denied">>, <<"partial", "failed">>,
      <<"something", "exception">>, <<"incomplete">>, <<"done">> }

PipelineProcess ==
    /\ steps < MaxPipelineSteps
    /\ \E a \in { <<"refund">>, <<"Report", "balance">> },
          o \in PipelineOutcomes, d \in Domains :
           Process(a, EmptyDict, <<>>, o, <<>>, d, "ok")

SpecPipeline == InitStore /\ [][PipelineProcess]_vars

\* the sentences of the narrative
Sentences(exp) == {exp.narrative[i] : i \in DOMAIN exp.narrative}

\* C25: process on an outcome classified as failure (failure keywords win
\* over partial keywords) in a domain without unhealed wounds yields
\* outcome_type failure, attribution skill, emotional_valence -0.3, severity
\* 0.5, a narrative containing "failed" and "develop my skills", and creates
\* no wound; the same failure in a domain with an unhealed wound yields
\* attribution identity, valence -0.5 and severity 0.7.
C25_FailureOutcome ==
    [][ /\ Called("process")
        /\ ~ret'.raised
        /\ AnyIn({"error", "failed", "exception", "denied"},
                 lower(call'.outcome))
        => /\ OutcomeValue(ret'.value.outcome_type) = "failure"
           /\ Unhealed(identity.wounds, call'.domain) = {} =>
                /\ AttributionValue(ret'.value.attribution) = "skill"
                /\ ret'.value.emotional_valence = FNeg(f3_10)
                /\ ret'.value.severity = f5_10
                /\ <<"I", "failed", "in my attempt to", call'.action>>
                       \in Sentences(ret'.value)
                /\ <<"I need to develop my skills in this area.">>
                       \in Sentences(ret'.value)
                /\ identity'.wounds = identity.wounds
           /\ Unhealed(identity.wounds, call'.domain) # {} =>
                /\ AttributionValue(ret'.value.attribution) = "identity"
                /\ ret'.value.emotional_valence = FNeg(f5_10)
                /\ ret'.value.severity = f7_10
      ]_vars

\* a second failure in the financial domain, whose outcome also names a
\* partial keyword, has met the wound the first one formed or found
C25_Witness ==
    /\ call.op = "process"
    /\ steps = 2
    /\ call.outcome = <<"partial", "failed">>
    /\ call.domain = "financial"
    /\ ~ret.raised
    /\ ret.value.attribution = "IDENTITY"
    /\ ret.value.severity = f7_10
    /\ experience_log[1].domain = "general"
    /\ experience_log[1].attribution = "skill"
    /\ experience_log[1].outcome_type = "failure"

----------------------------------------------------------------------------
(* SpecNote: a process that notes texts with keywords of every combination *)
(* of the categories                                                       *)

MaxNoteSteps == 2

\* the categories with keywords, in the order note looks for them
NotingOrder == <<"REACTING", "ANXIOUS", "EAGER", "UNCERTAIN", "PLANNING">>

NotingKeywords(category) ==
    CASE category = "REACTING"  -> {"should", "must", "need to", "have to"}
      [] category = "ANXIOUS"   -> {"worry", "concern", "risk", "danger"}
      [] category = "EAGER"     -> {"want", "excited", "opportunity"}
      [] category = "UNCERTAIN" -> {"not sure", "maybe", "unclear", "uncertain"}
      [] category = "PLANNING"  -> {"plan", "prepare", "consider", "think"}

\* a text with one keyword of each category of the set, the keyword of a
\* category that note looks for later standing earlier in the text
Mixed(categories) ==
    (IF "PLANNING" \in categories THEN <<"plan">> ELSE <<>>)
    \o (IF "UNCERTAIN" \in categories THEN <<"maybe">> ELSE <<>>)
    \o (IF "EAGER" \in categories THEN <<"want">> ELSE <<>>)
    \o (IF "ANXIOUS" \in categories THEN <<"risk">> ELSE <<>>)
    \o (IF "REACTING" \in categories THEN <<"must">> ELSE <<>>)

\* the texts noted: every mix, the empty text among them; a text without
\* keywords; keywords of several words, in upper case, and inside a word
NoteTexts ==
    {Mixed(s) : s \in SUBSET {NotingOrder[k] : k \in DOMAIN NotingOrder}}
    \cup { <<"hello">>, <<"not sure", "need to">>, <<"thinking", "Should">>,
           <<"explanation">> }

NoteAny ==
    /\ steps < MaxNoteSteps
    /\ \E t \in NoteTexts : NoteCall(t, "general")

SpecNote == Init /\ [][NoteAny]_vars

\* the places in NotingOrder of the categories whose keywords the text holds
Matching(text) ==
    {k \in DOMAIN NotingOrder :
        AnyIn(NotingKeywords(NotingOrder[k]), lower(text))}

\* C26: note classifies by first match in the fixed order reacting,
\* anxious, eager, uncertain, planning, else calm: a text matching keywords
\* of several sets gets the earliest category in that order, and a text
\* matching none gets calm.
C26_FirstMatch ==
    [][ Called("note") =>
          LET found == Matching(call'.thought_text)
          IN  /\ found = {} => NotingValue(ret'.value) = "calm"
              /\ found # {} =>
                   \E k \in found :
                       /\ \A j \in found : k <= j
                       /\ ret'.value = NotingOrder[k]
      ]_vars

\* a text that names planning, uncertainty, eagerness and a risk, in that
\* order, has been noted as anxious
C26_Witness ==
    /\ call.op = "note"
    /\ call.thought_text = <<"plan", "maybe", "want", "risk">>
    /\ ret.value = "ANXIOUS"

----------------------------------------------------------------------------
(* SpecNoting: a process that notes, assesses, contemplates and revisits   *)
(* long enough for the noting history to fill                              *)

MaxNotingSteps == 6

MaxNotingQueue == 3

NotingNote ==
    /\ steps < MaxNotingSteps
    /\ \E t \in { <<"hello">>, <<"worry">> } : NoteCall(t, "general")

NotingAssess ==
    /\ steps < MaxNotingSteps
    /\ AssessReadiness(<<"plan">>, "general", EmptyDict)

\* a refund of the financial domain is queued, a greeting is ready at once
NotingContemplate ==
    /\ steps < MaxNotingSteps
    /\ Len(contemplation_queue) < MaxNotingQueue
    /\ \/ Contemplate(<<"Should", "refund">>, "financial", EmptyDict)
       \/ Contemplate(<<"hello">>, "general", EmptyDict)

NotingRevisit ==
    /\ steps < MaxNotingSteps
    /\ RevisitQueue(EmptyDict)

NextNoting ==
    \/ NotingNote
    \/ NotingAssess
    \/ NotingContemplate
    \/ NotingRevisit

SpecNoting == Init /\ [][NextNoting]_vars

\* the noting history kept in ContemplativeState
History(id) == Get(id.contemplative_state.noting_patterns, "most_common", <<>>)

\* the category note gives the text, as the history records it
NotedAs(text) == <<NotingValue(note_category(text))>>

\* the categories the step noted, in the order it noted them: note and
\* assess_readiness note their text once; contemplate notes it once in the
\* assessment and once more when it queues the Thought; revisit_queue
\* notes each queued Thought in queue order
Noted ==
    CASE call'.op \in {"note", "assess_readiness"} ->
             NotedAs(call'.thought_text)
      [] call'.op = "contemplate" ->
             IF ret'.value[1] THEN NotedAs(call'.thought_text)
             ELSE NotedAs(call'.thought_text) \o NotedAs(call'.thought_text)
      [] call'.op = "revisit_queue" ->
             [i \in DOMAIN contemplation_queue |->
                 NotingValue(note_category(contemplation_queue[i].thought))]

\* C27: after any sequence of note, assess_readiness, contemplate and
\* revisit_queue calls, the noting history kept in ContemplativeState holds
\* at most 10 entries, and they are the most recently noted categories in
\* the order they were noted.
C27_NotingHistory ==
    [][ steps' = steps + 1 =>
          /\ Len(History(identity')) <= 10
          /\ History(identity') = LastN(History(identity) \o Noted, 10)
      ]_vars

\* three Thoughts were queued and revisited twice, twelve notings in all,
\* with a greeting noted in between: the history holds the last ten
C27_Witness ==
    /\ steps = 6
    /\ call.op = "revisit_queue"
    /\ Len(contemplation_queue) = 3
    /\ \A i \in DOMAIN contemplation_queue :
           contemplation_queue[i].times_revisited = 2
    /\ Len(History(identity)) = 10
    /\ \E i \in DOMAIN History(identity) : History(identity)[i] = "calm"

----------------------------------------------------------------------------
(* SpecLinger: a process that queues Thoughts when it starts and then      *)
(* revisits the queue for as long as it holds a Thought                    *)

MaxLingerSteps == 3

\* a refund is queued in either domain: in the financial one no pass finds
\* it ready, in the general one an urgent pass does
LingerContemplate ==
    /\ steps < MaxLingerSteps
    /\ \E d \in Domains : Contemplate(<<"Should", "refund">>, d, EmptyDict)

LingerRevisit ==
    /\ steps < MaxLingerSteps \/ contemplation_queue # <<>>
    /\ \E c \in Contexts : RevisitQueue(c)

NextLinger ==
    \/ LingerContemplate
    \/ LingerRevisit

SpecLinger == Init /\ [][NextLinger]_vars

\* a step of LingerRevisit, told by the call it records: under SpecLinger
\* the steps that satisfy it are the steps of LingerRevisit, and it is
\* enabled where LingerRevisit is
LingerPass ==
    /\ steps < MaxLingerSteps \/ contemplation_queue # <<>>
    /\ steps' = steps + 1
    /\ \E c \in Contexts : call' = [op |-> "revisit_queue", context |-> c]

\* revisit_queue keeps being called
FairLinger == SpecLinger /\ WF_steps(LingerPass)

\* the ids contemplate gives under SpecLinger, where the clock reads 1
LingerIds == {ThoughtId(k, 1) : k \in 0 .. MaxLingerSteps}

\* a Thought of that id is queued
Lingers(id) ==
    \E i \in DOMAIN contemplation_queue : contemplation_queue[i].id = id

\* C28: if revisit_queue keeps being called, every Thought enqueued by
\* contemplate eventually leaves the queue, by promotion or by eviction:
\* with the decay_rate 0.02 that an enqueued Thought gets, no Thought is
\* still queued after its 26th revisit pass.
C28_LeavesTheQueue ==
    /\ [](\A i \in DOMAIN contemplation_queue :
              /\ contemplation_queue[i].decay_rate = f2_100
              /\ contemplation_queue[i].times_revisited <= 25)
    /\ \A id \in LingerIds : Lingers(id) ~> ~Lingers(id)

\* the 26th pass over a refund of the financial domain has just evicted it
C28_Witness ==
    /\ call.op = "revisit_queue"
    /\ steps = 27
    /\ log = <<ThoughtId(0, 1)>>
    /\ contemplation_queue = <<>>

----------------------------------------------------------------------------
(* Properties of wound formation, under SpecPipeline                       *)

\* the wounds of the domain, healed or not, in list order
WoundsOf(wounds, domain) == SelectSeq(wounds, LAMBDA w : w.domain = domain)

\* C31: starting from an Identity with no unhealed wound in a domain d, no
\* sequence of process calls ever creates a wound in d: integrate adds a
\* wound only when severity > 0.6, and severity is 0.7 only for a failure in
\* a domain that already has an unhealed wound (0.5 for a failure without
\* one, 0 otherwise).
C31_NoFirstWound ==
    [][ Called("process") /\ ~ret'.raised =>
          /\ \A d \in Domains :
                 Unhealed(identity.wounds, d) = {} =>
                     /\ WoundsOf(identity'.wounds, d)
                            = WoundsOf(identity.wounds, d)
                     /\ Unhealed(identity'.wounds, d) = {}
          /\ Len(identity'.wounds) > Len(identity.wounds) =>
                 FLt(f6_10, ret'.value.severity)
          /\ ret'.value.severity =
                 IF ret'.value.outcome_type # "FAILURE" THEN FZero
                 ELSE IF Unhealed(identity.wounds, call'.domain) # {}
                 THEN f7_10
                 ELSE f5_10
      ]_vars

\* two failures in the general domain, which held no wound, have been
\* processed, each with severity 0.5: it still holds none
C31_Witness ==
    /\ call.op = "process"
    /\ steps = 2
    /\ call.domain = "general"
    /\ ~ret.raised
    /\ ret.value.outcome_type = "FAILURE"
    /\ ret.value.severity = f5_10
    /\ experience_log[1].domain = "general"
    /\ experience_log[1].outcome_type = "failure"
    /\ WoundsOf(identity.wounds, "general") = <<>>

----------------------------------------------------------------------------
(* Properties of the queue health between operations, under Spec           *)

\* C32, as the claim states it: at every point between operations,
\* ContemplativeState.queue_health equals the classification of the current
\* queue length, including right after construction and right after
\* contemplate enqueues a Thought.  Only revisit_queue writes queue_health,
\* and a fresh ContemplativeState holds "balanced" over an empty queue, so
\* this does not hold.
C32_HealthAlwaysCurrent ==
    identity.contemplative_state.queue_health
        = HealthOf(Len(contemplation_queue))

\* C32, amended: queue_health is the classification of the queue length as
\* the last revisit_queue pass left it; no other operation writes it, and a
\* fresh Identity holds "balanced".
C32_HealthAsOfLastPass ==
    /\ [](call.op = "__init__" =>
              identity.contemplative_state.queue_health = "balanced")
    /\ [][ /\ Called("revisit_queue") =>
                identity'.contemplative_state.queue_health
                    = HealthOf(Len(contemplation_queue'))
           /\ ~Called("revisit_queue") =>
                identity'.contemplative_state.queue_health
                    = identity.contemplative_state.queue_health
         ]_vars

\* a pass over the empty queue wrote "healthy", and contemplate has since
\* queued a Thought: the health is still the one of the empty queue
C32_Witness ==
    /\ call.op = "contemplate"
    /\ ret.value[1] = FALSE
    /\ Len(contemplation_queue) = 1
    /\ identity.contemplative_state.queue_health = "healthy"

----------------------------------------------------------------------------
(* Properties of a failed save inside integrate, under SpecStore           *)

\* C33, as the specification states it: when the Identity save fails inside
\* integrate, the in-memory Identity is left as it was before the
\* integration started, so in-memory and persisted Identity stay equal after
\* the error.  integrate applies the mood, value, wound and relationship
\* updates to the Identity in place before it calls save, and nothing undoes
\* them when save raises, so this does not hold.
C33_RolledBack ==
    [][ Called("process") /\ ret'.raised =>
          /\ identity' = identity
          /\ (identity_file.kind = "json" /\ ~Reloaded(identity_file).failed
              /\ Aggregate(Reloaded(identity_file).identity)
                     = Aggregate(identity))
             => /\ identity_file' = identity_file
                /\ Aggregate(Reloaded(identity_file').identity)
                       = Aggregate(identity')
      ]_vars

====
